---------------------------- MODULE Spec2Model ----------------------------
(***************************************************************************)
(* Model of the nanopod web gateway (WebChannel): the room-scoped SSE hub, *)
(* the request router with its bearer-token authentication, the message    *)
(* ingestion handler, outbound delivery and room creation.                 *)
(*                                                                         *)
(* Strings are sequences of one-character strings, so that startsWith,     *)
(* slice, trim and concatenation are computed as the code computes them.   *)
(* An optional value (null / undefined or a value) is a sequence of length *)
(* at most one holding the value.                                          *)
(***************************************************************************)
EXTENDS Integers, Sequences, FiniteSets, TLC

(***************************************************************************)
(* Bounds of the model.                                                    *)
(***************************************************************************)
MaxClients == 2
MaxMsgs == 2
MaxPings == 1
MaxInflight == 1

(***************************************************************************)
(* Strings.                                                                *)
(***************************************************************************)
None == <<>>
Some(v) == <<v>>

StartsWith(s, p) == Len(s) >= Len(p) /\ SubSeq(s, 1, Len(p)) = p
Slice(s, n) == SubSeq(s, n + 1, Len(s))

RECURSIVE TrimStart(_)
TrimStart(s) == IF s # <<>> /\ Head(s) = " " THEN TrimStart(Tail(s)) ELSE s

RECURSIVE TrimEnd(_)
TrimEnd(s) ==
  IF s # <<>> /\ s[Len(s)] = " " THEN TrimEnd(SubSeq(s, 1, Len(s) - 1)) ELSE s

Trim(s) == TrimEnd(TrimStart(s))

\* every jid taken for one of the gateway's
AnyPrefix == <<>>

WebPrefix == <<"w", "e", "b", ":">>
BearerPrefix == <<"B", "e", "a", "r", "e", "r", " ">>
AssistantName == <<"A", "n", "d", "y">>

\* `web:${room}`
WebJid(room) == WebPrefix \o room

ownsJid(jid) == StartsWith(jid, WebPrefix)

(***************************************************************************)
(* The configuration the channel is constructed with.                      *)
(***************************************************************************)
Token == <<"t", "k">>

SlugA == <<"a">>
SlugB == <<"b">>
Slugs == {SlugA, SlugB}
TgJid == <<"t", "g", ":", "1">>

\* the group of a new room made to wait for the trigger word
RegisteredGroupTriggered(name, slug, now) ==
  [name |-> name, folder |-> <<"w", "e", "b", "-">> \o slug,
   trigger |-> <<"@">> \o <<"A", "n", "d", "y">>, added_at |-> now,
   requiresTrigger |-> TRUE]

RegisteredGroup(name, slug, now) ==
  [name |-> name, folder |-> <<"w", "e", "b", "-">> \o slug,
   trigger |-> <<"@">> \o AssistantName, added_at |-> now,
   requiresTrigger |-> FALSE]

\* the registry asked whether it holds any group at all
HasAnyGroup(registry, jid) == registry # <<>>

\* registeredGroups() returns an object: its entries in insertion order.
HasGroup(registry, jid) == \E i \in 1..Len(registry) : registry[i].jid = jid
GetGroup(registry, jid) ==
  registry[CHOOSE i \in 1..Len(registry) : registry[i].jid = jid].group

\* The registry the channel starts with: the bootstrap room web:a and a
\* group owned by another channel.
InitialGroups ==
  << [jid |-> TgJid,
      group |-> [name |-> <<"T">>, folder |-> <<"t", "g">>,
                 trigger |-> <<"@">> \o AssistantName, added_at |-> 0,
                 requiresTrigger |-> TRUE]],
     [jid |-> WebJid(SlugA), group |-> RegisteredGroup(<<"A">>, SlugA, 0)] >>

NoResponse == [status |-> 0, kind |-> "none", data |-> <<>>]
Response(status, kind, data) == [status |-> status, kind |-> kind, data |-> data]

VARIABLES
  server,         \* this.server: "null", "starting", "listening", "closing", "closed"
  connected,      \* this.connected
  clientsByRoom,  \* this.clientsByRoom: jid -> list of client ids (keys = DOMAIN)
  sse,            \* every SseClient ever created, by id: its stream and its timer
  groups,         \* what registeredGroups() returns
  inflight,       \* POST requests whose body has not ended yet
  calls,          \* the calls made to onChatMetadata, onMessage, onRegisterGroup
  store,          \* the messages appended by storeMessageDirect
  nextId,         \* source of fresh message ids
  lastOp,         \* the request or sendMessage call handled last
  resp,           \* its outcome so far: the response written, or how the call ended
  page            \* the chat page of a room open in a browser

vars == <<server, connected, clientsByRoom, sse, groups, inflight, calls, store,
          nextId, lastOp, resp, page>>

(***************************************************************************)
(* The chat page (web-ui), before its script has run.                      *)
(*   es       the EventSource: "none", "open" (created by connectSSE),     *)
(*            "waiting" (closed by onerror, setTimeout pending)            *)
(*   opened   how many EventSources connectSSE has created                 *)
(*   read     how many chunks of the current stream have reached the page  *)
(*   hist     the history fetch: "none", "sent", "answered", "done"        *)
(*   pending  the response of the history fetch before its callback ran    *)
(*   seenIds  the ids of the messages displayed                            *)
(***************************************************************************)
PageInit ==
  [es |-> "none", opened |-> 0, read |-> 0, hist |-> "none", pending |-> <<>>,
   seenIds |-> {}]

effectVars == <<clientsByRoom, sse, groups, calls, store, nextId>>

Init ==
  /\ server = "null"
  /\ connected = FALSE
  /\ clientsByRoom = <<>>
  /\ sse = <<>>
  /\ groups = InitialGroups
  /\ inflight = <<>>
  /\ calls = <<>>
  /\ store = <<>>
  /\ nextId = 1
  /\ lastOp = None
  /\ resp = NoResponse
  /\ page = PageInit

(***************************************************************************)
(* Messages.  Date.now() and the random suffix of an id are a fresh        *)
(* number; the serialisation lists the fields in the order of the literal. *)
(***************************************************************************)
NewMessage(kind, n, jid, sender, senderName, content, fromMe, bot) ==
  [id |-> <<kind, n>>, chat_jid |-> jid, sender |-> sender,
   sender_name |-> senderName, content |-> content, timestamp |-> n,
   is_from_me |-> fromMe, is_bot_message |-> bot]

JSONStringify(msg) ==
  << <<"id", msg.id>>, <<"chat_jid", msg.chat_jid>>, <<"sender", msg.sender>>,
     <<"sender_name", msg.sender_name>>, <<"content", msg.content>>,
     <<"timestamp", msg.timestamp>>, <<"is_from_me", msg.is_from_me>>,
     <<"is_bot_message", msg.is_bot_message>> >>

OkChunk == <<"comment", <<"ok">>>>
PingChunk == <<"comment", <<"ping">>>>
MessageEvent(data) == <<"message", data>>

(***************************************************************************)
(* An SSE client: the response stream and its keepalive interval.          *)
(*   conn       "open" until the underlying connection has closed          *)
(*   ended      res.end() was called                                       *)
(*   closeFired the stream's 'close' event has been delivered              *)
(*   timer      the keepalive interval is armed                            *)
(*   out        every chunk handed to res.write, with whether the sink     *)
(*              was still live when it was written                         *)
(***************************************************************************)
SinkLive(c) == c.conn = "open" /\ ~c.ended

\* res.write(chunk): never throws for a string chunk; on a finished or
\* closed stream the chunk is dropped.
ResWrite(c, chunk) ==
  [c EXCEPT !.out = Append(@, [chunk |-> chunk, live |-> SinkLive(c)])]

\* for (const client of clients) client.res.write(...), stopping at the
\* first write that fails
RECURSIVE WriteEachUntilFailure(_, _, _)
WriteEachUntilFailure(s, ids, chunk) ==
  IF ids = <<>> THEN s
  ELSE IF ~SinkLive(s[Head(ids)])
       THEN [s EXCEPT ![Head(ids)] = ResWrite(@, chunk)]
       ELSE WriteEachUntilFailure([s EXCEPT ![Head(ids)] = ResWrite(@, chunk)],
                                  Tail(ids), chunk)

\* for (const client of clients) client.res.write(...)
RECURSIVE WriteEach(_, _, _)
WriteEach(s, ids, chunk) ==
  IF ids = <<>> THEN s
  ELSE WriteEach([s EXCEPT ![Head(ids)] = ResWrite(@, chunk)], Tail(ids), chunk)

\* every room's list instead of the list of the room asked for
RECURSIVE ClientsOfAnyRoom(_, _)
ClientsOfAnyRoom(table, jid) ==
  IF DOMAIN table = {} THEN <<>>
  ELSE LET k == CHOOSE x \in DOMAIN table : TRUE
       IN table[k] \o ClientsOfAnyRoom([j \in DOMAIN table \ {k} |-> table[j]], jid)

\* this.clientsByRoom.get(jid) || []
ClientsOf(table, jid) == IF jid \in DOMAIN table THEN table[jid] ELSE <<>>

\* the broadcast left out
BroadcastNone(s, table, jid, data) == s

\* the event written to every stream there is
BroadcastToAll(s, table, jid, data) ==
  WriteEach(s, [i \in 1..Len(s) |-> i], MessageEvent(data))

\* Broadcast to the SSE clients subscribed to the room
Broadcast(s, table, jid, data) ==
  WriteEach(s, ClientsOf(table, jid), MessageEvent(data))

\* clients.filter((c) => c !== client)
RECURSIVE Without(_, _)
Without(ids, c) ==
  IF ids = <<>> THEN <<>>
  ELSE IF Head(ids) = c THEN Without(Tail(ids), c)
       ELSE <<Head(ids)>> \o Without(Tail(ids), c)

\* this.clientsByRoom.delete(jid)
MapDelete(table, jid) == [j \in DOMAIN table \ {jid} |-> table[j]]

\* this.clientsByRoom.set(jid, list)
MapSet(table, jid, list) ==
  [j \in DOMAIN table \cup {jid} |-> IF j = jid THEN list ELSE table[j]]

\* the 'close' listener without the removal of an emptied room
RemoveClientKeepKey(table, jid, c) ==
  IF jid \in DOMAIN table THEN MapSet(table, jid, Without(table[jid], c)) ELSE table

\* the 'close' listener dropping the room's list whatever it holds
RemoveClientDropRoom(table, jid, c) ==
  IF jid \in DOMAIN table THEN MapDelete(table, jid) ELSE table

\* the table part of the 'close' listener of handleSse
RemoveClient(table, jid, c) ==
  IF jid \in DOMAIN table
  THEN LET filtered == Without(table[jid], c)
       IN IF Len(filtered) = 0 THEN MapDelete(table, jid)
          ELSE MapSet(table, jid, filtered)
  ELSE table

\* the client put at the head of the room's list
AddClientFront(table, jid, c) ==
  LET t == IF jid \in DOMAIN table THEN table ELSE MapSet(table, jid, <<>>)
  IN MapSet(t, jid, <<c>> \o t[jid])

\* the client pushed twice
AddClientTwice(table, jid, c) ==
  LET t == IF jid \in DOMAIN table THEN table ELSE MapSet(table, jid, <<>>)
  IN MapSet(t, jid, t[jid] \o <<c, c>>)

\* the client registered only for a room of the registry
AddClientRegistered(table, jid, c) ==
  IF HasGroup(groups, jid)
  THEN LET t == IF jid \in DOMAIN table THEN table ELSE MapSet(table, jid, <<>>)
       IN MapSet(t, jid, Append(t[jid], c))
  ELSE table

\* the registration part of handleSse
AddClient(table, jid, c) ==
  LET t == IF jid \in DOMAIN table THEN table ELSE MapSet(table, jid, <<>>)
  IN MapSet(t, jid, Append(t[jid], c))

InTable(c) == \E j \in DOMAIN clientsByRoom :
                 \E i \in 1..Len(clientsByRoom[j]) : clientsByRoom[j][i] = c

(***************************************************************************)
(* Requests.  A pathname is the sequence of its segments; a segment is a   *)
(* sequence of raw characters, each either a literal <<c>> or the percent  *)
(* escape <<"%", c>> of c.                                                 *)
(***************************************************************************)
Lit(str) == [i \in 1..Len(str) |-> <<str[i]>>]

SegApi == Lit(<<"a", "p", "i">>)
SegRooms == Lit(<<"r", "o", "o", "m", "s">>)
SegR == Lit(<<"r">>)
SegEvents == Lit(<<"e", "v", "e", "n", "t", "s">>)
SegSend == Lit(<<"s", "e", "n", "d">>)
SegHistory == Lit(<<"h", "i", "s", "t", "o", "r", "y">>)
SegOther == Lit(<<"z">>)

Unreserved ==
  {"a", "b", "c", "d", "e", "f", "g", "h", "i", "j", "k", "l", "m", "n", "o", "p",
   "q", "r", "s", "t", "u", "v", "w", "x", "y", "z", "A", "B", "C", "D", "E", "F",
   "G", "H", "I", "J", "K", "L", "M", "N", "O", "P", "Q", "R", "S", "T", "U", "V",
   "W", "X", "Y", "Z", "0", "1", "2", "3", "4", "5", "6", "7", "8", "9", "-", "_",
   ".", "!", "~", "*", "'", "(", ")"}

decodeURIComponent(seg) == [i \in 1..Len(seg) |-> seg[i][Len(seg[i])]]
encodeURIComponent(str) ==
  [i \in 1..Len(str) |-> IF str[i] \in Unreserved THEN <<str[i]>> ELSE <<"%", str[i]>>]

\* body: what the client sends after the head (NoBody for a GET)
Request(method, path, query, auth, body) ==
  [method |-> method, path |-> path, query |-> query, auth |-> auth, body |-> body]

\* the secret compared by prefix instead of by equality
authenticatePrefix(req) ==
  \/ req.query # None /\ StartsWith(req.query[1], Token)
  \/ /\ req.auth # None
     /\ StartsWith(req.auth[1], BearerPrefix)
     /\ StartsWith(Slice(req.auth[1], Len(BearerPrefix)), Token)

authenticate(req) ==
  \/ req.query = Some(Token)
  \/ /\ req.auth # None
     /\ StartsWith(req.auth[1], BearerPrefix)
     /\ Slice(req.auth[1], 7) = Token

\* the test made for the prefix '/api/rooms/' only
UnderApiRoomsOnly(path) == Len(path) >= 3 /\ path[1] = SegApi /\ path[2] = SegRooms

\* pathname.startsWith('/api/')
UnderApi(path) == Len(path) >= 2 /\ path[1] = SegApi

\* pathname.startsWith('/api/rooms/')
UnderApiRooms(path) == Len(path) >= 3 /\ path[1] = SegApi /\ path[2] = SegRooms

extractRoomSlug(path) ==
  IF UnderApiRooms(path) /\ path[3] # <<>> THEN Some(decodeURIComponent(path[3]))
  ELSE IF Len(path) >= 2 /\ path[1] = SegR /\ path[2] # <<>>
       THEN Some(decodeURIComponent(path[2]))
       ELSE None

\* the suffix taken to be the last segment of the pathname
RouteSuffixLast(path, roomSlug) == SubSeq(path, Len(path), Len(path))

\* pathname.replace(`/api/rooms/${encodeURIComponent(roomSlug)}`, ''): the
\* segments left after the room's, or the whole pathname when the encoded
\* slug is not the text of the third segment.
RouteSuffix(path, roomSlug) ==
  IF path[3] = encodeURIComponent(roomSlug) THEN SubSeq(path, 4, Len(path)) ELSE path

\* the tests of handleRequest with the one for OPTIONS after the gate of /api/
RouteAuthFirst(req, registry) ==
  LET path == req.path
      slug == extractRoomSlug(path)
  IN
  IF path = <<>> /\ req.method = "GET"
    THEN IF ~authenticate(req) THEN [h |-> "unauthorizedText"] ELSE [h |-> "roomList"]
  ELSE IF Len(path) = 2 /\ path[1] = SegR /\ path[2] # <<>> /\ req.method = "GET"
    THEN IF ~authenticate(req) THEN [h |-> "unauthorizedText"]
         ELSE IF ~HasGroup(registry, WebJid(decodeURIComponent(path[2])))
              THEN [h |-> "roomNotFound"]
              ELSE [h |-> "chatPage", room |-> decodeURIComponent(path[2])]
  ELSE IF UnderApi(path) /\ ~authenticate(req) THEN [h |-> "unauthorizedJson"]
  ELSE IF req.method = "OPTIONS" THEN [h |-> "preflight"]
  ELSE IF path = <<SegApi, SegRooms>> /\ req.method = "GET" THEN [h |-> "listRooms"]
  ELSE IF path = <<SegApi, SegRooms>> /\ req.method = "POST" THEN [h |-> "createRoom"]
  ELSE IF slug # None /\ slug[1] # <<>> /\ UnderApiRooms(path)
    THEN LET suffix == RouteSuffix(path, slug[1])
         IN IF suffix = <<SegEvents>> /\ req.method = "GET"
              THEN [h |-> "sse", room |-> slug[1]]
            ELSE IF suffix = <<SegSend>> /\ req.method = "POST"
              THEN [h |-> "send", room |-> slug[1]]
            ELSE IF suffix = <<SegHistory>> /\ req.method = "GET"
              THEN [h |-> "history", room |-> slug[1]]
            ELSE [h |-> "notFound"]
  ELSE [h |-> "notFound"]

\* the tests of handleRequest with the room of /r/{room} looked up before
\* the secret is tested
RouteExistenceFirst(req, registry) ==
  LET path == req.path
      slug == extractRoomSlug(path)
  IN
  IF req.method = "OPTIONS" THEN [h |-> "preflight"]
  ELSE IF path = <<>> /\ req.method = "GET"
    THEN IF ~authenticate(req) THEN [h |-> "unauthorizedText"] ELSE [h |-> "roomList"]
  ELSE IF Len(path) = 2 /\ path[1] = SegR /\ path[2] # <<>> /\ req.method = "GET"
    THEN IF ~HasGroup(registry, WebJid(decodeURIComponent(path[2])))
         THEN [h |-> "roomNotFound"]
         ELSE IF ~authenticate(req) THEN [h |-> "unauthorizedText"]
              ELSE [h |-> "chatPage", room |-> decodeURIComponent(path[2])]
  ELSE IF UnderApi(path) /\ ~authenticate(req) THEN [h |-> "unauthorizedJson"]
  ELSE IF path = <<SegApi, SegRooms>> /\ req.method = "GET" THEN [h |-> "listRooms"]
  ELSE IF path = <<SegApi, SegRooms>> /\ req.method = "POST" THEN [h |-> "createRoom"]
  ELSE IF slug # None /\ slug[1] # <<>> /\ UnderApiRooms(path)
    THEN LET suffix == RouteSuffix(path, slug[1])
         IN IF suffix = <<SegEvents>> /\ req.method = "GET"
              THEN [h |-> "sse", room |-> slug[1]]
            ELSE IF suffix = <<SegSend>> /\ req.method = "POST"
              THEN [h |-> "send", room |-> slug[1]]
            ELSE IF suffix = <<SegHistory>> /\ req.method = "GET"
              THEN [h |-> "history", room |-> slug[1]]
            ELSE [h |-> "notFound"]
  ELSE [h |-> "notFound"]

\* The outcome handleRequest selects, in the order of its tests.
Route(req, registry) ==
  LET path == req.path
      slug == extractRoomSlug(path)
  IN
  IF req.method = "OPTIONS" THEN [h |-> "preflight"]
  ELSE IF path = <<>> /\ req.method = "GET"
    THEN IF ~authenticate(req) THEN [h |-> "unauthorizedText"] ELSE [h |-> "roomList"]
  ELSE IF Len(path) = 2 /\ path[1] = SegR /\ path[2] # <<>> /\ req.method = "GET"
    THEN IF ~authenticate(req) THEN [h |-> "unauthorizedText"]
         ELSE IF ~HasGroup(registry, WebJid(decodeURIComponent(path[2])))
              THEN [h |-> "roomNotFound"]
              ELSE [h |-> "chatPage", room |-> decodeURIComponent(path[2])]
  ELSE IF UnderApi(path) /\ ~authenticate(req) THEN [h |-> "unauthorizedJson"]
  ELSE IF path = <<SegApi, SegRooms>> /\ req.method = "GET" THEN [h |-> "listRooms"]
  ELSE IF path = <<SegApi, SegRooms>> /\ req.method = "POST" THEN [h |-> "createRoom"]
  ELSE IF slug # None /\ slug[1] # <<>> /\ UnderApiRooms(path)
    THEN LET suffix == RouteSuffix(path, slug[1])
         IN IF suffix = <<SegEvents>> /\ req.method = "GET"
              THEN [h |-> "sse", room |-> slug[1]]
            ELSE IF suffix = <<SegSend>> /\ req.method = "POST"
              THEN [h |-> "send", room |-> slug[1]]
            ELSE IF suffix = <<SegHistory>> /\ req.method = "GET"
              THEN [h |-> "history", room |-> slug[1]]
            ELSE [h |-> "notFound"]
  ELSE [h |-> "notFound"]

(***************************************************************************)
(* JSON values as the handlers see them: the type typeof reports and the   *)
(* text of the value.  A request body either fails to parse, parses to     *)
(* null, or parses to a value whose destructured property is prop; len is  *)
(* the length of its text (the short bodies count as one character).       *)
(***************************************************************************)
JSUndefined == [t |-> "undefined", v |-> <<>>]
JSNull == [t |-> "null", v |-> <<>>]
JSString(str) == [t |-> "string", v |-> str]
JSNumber(digits) == [t |-> "number", v |-> digits]

Truthy(x) ==
  CASE x.t = "undefined" -> FALSE
    [] x.t = "null" -> FALSE
    [] x.t = "string" -> x.v # <<>>
    [] x.t = "number" -> x.v # <<"0">>
    [] x.t = "boolean" -> x.v = <<"t", "r", "u", "e">>
    [] OTHER -> TRUE

Body(parse, prop) == [parse |-> parse, prop |-> prop, len |-> 1]
NoBody == [parse |-> "none", prop |-> JSUndefined, len |-> 0]
\* a JSON object of the given length whose text is a long string
LongBody(len) == [parse |-> "object", prop |-> JSString(<<"h">>), len |-> len]
InvalidJson == Body("throws", JSUndefined)
JsonNull == Body("null", JSUndefined)

SendBodies ==
  {InvalidJson, JsonNull, Body("object", JSUndefined), Body("object", JSString(<<>>)),
   Body("object", JSNull), Body("object", JSNumber(<<"4", "2">>)),
   Body("object", JSString(<<" ">>)),
   Body("object", JSString(<<"h">>)), Body("object", JSString(<<" ", "h">>))}

(***************************************************************************)
(* Room identifier derivation of handleCreateRoom.                         *)
(***************************************************************************)
UpperLetters ==
  <<"A", "B", "C", "D", "E", "F", "G", "H", "I", "J", "K", "L", "M", "N", "O", "P",
    "Q", "R", "S", "T", "U", "V", "W", "X", "Y", "Z">>
LowerLetters ==
  <<"a", "b", "c", "d", "e", "f", "g", "h", "i", "j", "k", "l", "m", "n", "o", "p",
    "q", "r", "s", "t", "u", "v", "w", "x", "y", "z">>
Digits == {"0", "1", "2", "3", "4", "5", "6", "7", "8", "9"}

LowerChar(c) ==
  IF \E i \in 1..Len(UpperLetters) : UpperLetters[i] = c
  THEN LowerLetters[CHOOSE i \in 1..Len(UpperLetters) : UpperLetters[i] = c]
  ELSE c

toLowerCase(str) == [i \in 1..Len(str) |-> LowerChar(str[i])]

IsSlugChar(c) == c \in Digits \/ \E i \in 1..Len(LowerLetters) : LowerLetters[i] = c

\* every character outside [a-z0-9] replaced by a '-' of its own
RECURSIVE ReplaceEach(_, _)
ReplaceEach(str, inRun) ==
  IF str = <<>> THEN <<>>
  ELSE IF IsSlugChar(Head(str)) THEN <<Head(str)>> \o ReplaceEach(Tail(str), FALSE)
       ELSE <<"-">> \o ReplaceEach(Tail(str), TRUE)

\* .replace(/[^a-z0-9]+/g, '-')
RECURSIVE CollapseRuns(_, _)
CollapseRuns(str, inRun) ==
  IF str = <<>> THEN <<>>
  ELSE IF IsSlugChar(Head(str)) THEN <<Head(str)>> \o CollapseRuns(Tail(str), FALSE)
       ELSE (IF inRun THEN <<>> ELSE <<"-">>) \o CollapseRuns(Tail(str), TRUE)

\* .replace(/^-|-$/g, '')
StripDashes(str) ==
  LET s1 == IF str # <<>> /\ Head(str) = "-" THEN Tail(str) ELSE str
  IN IF s1 # <<>> /\ s1[Len(s1)] = "-" THEN SubSeq(s1, 1, Len(s1) - 1) ELSE s1

Slugify(name) == StripDashes(CollapseRuns(Trim(toLowerCase(name)), FALSE))

CreateBodies ==
  {InvalidJson, Body("object", JSUndefined), Body("object", JSString(<<"B">>)),
   Body("object", JSString(<<"A", " ">>)), Body("object", JSString(<<"!">>))}

(***************************************************************************)
(* connect(), the 'listening' callback, disconnect() and the callback of   *)
(* server.close().                                                         *)
(***************************************************************************)
\* connect() is called once, when the process starts.
Connect ==
  /\ UNCHANGED page
  /\ server = "null"
  /\ server' = "starting"
  /\ UNCHANGED <<connected, clientsByRoom, sse, groups, inflight, calls, store,
                 nextId, lastOp, resp>>

Listening ==
  /\ UNCHANGED page
  /\ server = "starting"
  /\ server' = "listening"
  /\ connected' = TRUE
  /\ UNCHANGED <<clientsByRoom, sse, groups, inflight, calls, store, nextId,
                 lastOp, resp>>

\* clearInterval(client.keepAliveTimer); client.res.end()
\* res.end() without clearInterval
EndClientKeepTimer(c) == [c EXCEPT !.ended = TRUE]

EndClient(c) == [c EXCEPT !.timer = FALSE, !.ended = TRUE]

\* the loop of disconnect() ending only the streams of the first room
EndFirstRoomOnly(s, table) ==
  IF DOMAIN table = {} THEN s
  ELSE LET k == CHOOSE x \in DOMAIN table : TRUE
       IN [c \in 1..Len(s) |->
             IF \E i \in 1..Len(table[k]) : table[k][i] = c THEN EndClient(s[c])
             ELSE s[c]]

\* for (const [, clients] of this.clientsByRoom) for (const client of clients) ...
EndAll(s, table) ==
  [c \in 1..Len(s) |->
     IF \E j \in DOMAIN table : \E i \in 1..Len(table[j]) : table[j][i] = c
     THEN EndClient(s[c]) ELSE s[c]]

\* disconnect() without the assignment to this.connected
DisconnectStillConnected ==
  /\ UNCHANGED page
  /\ connected' = connected
  /\ sse' = EndAll(sse, clientsByRoom)
  /\ clientsByRoom' = <<>>
  /\ server' = IF server = "listening" THEN "closing"
               ELSE IF server = "starting" THEN "closed"
               ELSE server
  /\ UNCHANGED <<groups, inflight, calls, store, nextId, lastOp, resp>>

\* A server closed before it listens has accepted no connection: no request
\* reaches it, and its close has nothing to wait for.
Disconnect ==
  /\ UNCHANGED page
  /\ connected' = FALSE
  /\ sse' = EndAll(sse, clientsByRoom)
  /\ clientsByRoom' = <<>>
  /\ server' = IF server = "listening" THEN "closing"
               ELSE IF server = "starting" THEN "closed"
               ELSE server
  /\ UNCHANGED <<groups, inflight, calls, store, nextId, lastOp, resp>>

\* The callback of server.close(): every connection of the server has ended.
ServerClosed ==
  /\ UNCHANGED page
  /\ server = "closing"
  /\ inflight = <<>>
  /\ \A c \in 1..Len(sse) : sse[c].conn = "closed" \/ sse[c].ended
  /\ server' = "closed"
  /\ UNCHANGED <<connected, clientsByRoom, sse, groups, inflight, calls, store,
                 nextId, lastOp, resp>>

(***************************************************************************)
(* sendMessage(jid, text, metadata).  storeOk: storeMessageDirect returns  *)
(* (it throws otherwise, and the promise is rejected).                     *)
(***************************************************************************)
\* the override used for the display name only
BotMessageNameOnly(n, jid, text, meta) ==
  NewMessage("bot", n, jid, <<"b", "o", "t">>,
             IF meta # None THEN meta[1] ELSE AssistantName, text, FALSE, TRUE)

BotMessage(n, jid, text, meta) ==
  NewMessage("bot", n, jid,
             IF meta # None THEN meta[1] ELSE <<"b", "o", "t">>,
             IF meta # None THEN meta[1] ELSE AssistantName,
             text, FALSE, TRUE)

\* The call, as the operation observed last.
SendCall(jid, text, meta) ==
  [method |-> "sendMessage", jid |-> jid, text |-> text, meta |-> meta]

\* obs: the caller's view of the operation (the response written, the way
\* the promise ended) is recorded in lastOp and resp.
Observe(obs, op, outcome) ==
  IF obs THEN lastOp' = Some(op) /\ resp' = outcome ELSE UNCHANGED <<lastOp, resp>>

\* sendMessage with the broadcast made before the message is stored
SendMessagePublishFirst(jid, text, meta, storeOk, obs) ==
  /\ UNCHANGED page
  /\ UNCHANGED <<server, connected, clientsByRoom, groups, inflight, calls>>
  /\ IF ~StartsWith(jid, WebPrefix)
     THEN /\ storeOk
          /\ Observe(obs, SendCall(jid, text, meta), Response(0, "ignored", <<>>))
          /\ UNCHANGED <<sse, store, nextId>>
     ELSE /\ nextId <= MaxMsgs
          /\ nextId' = nextId + 1
          /\ LET msg == BotMessage(nextId, jid, text, meta)
             IN /\ sse' = Broadcast(sse, clientsByRoom, jid, JSONStringify(msg))
                /\ store' = IF storeOk THEN Append(store, msg) ELSE store
                /\ Observe(obs, SendCall(jid, text, meta),
                           Response(0, IF storeOk THEN "resolved" ELSE "rejected",
                                    <<>>))

SendMessage(jid, text, meta, storeOk, obs) ==
  /\ UNCHANGED page
  /\ UNCHANGED <<server, connected, clientsByRoom, groups, inflight, calls>>
  /\ IF ~StartsWith(jid, WebPrefix)
     THEN /\ storeOk
          /\ Observe(obs, SendCall(jid, text, meta), Response(0, "ignored", <<>>))
          /\ UNCHANGED <<sse, store, nextId>>
     ELSE IF ~storeOk
     THEN /\ Observe(obs, SendCall(jid, text, meta), Response(0, "rejected", <<>>))
          /\ UNCHANGED <<sse, store, nextId>>
     ELSE /\ nextId <= MaxMsgs
          /\ nextId' = nextId + 1
          /\ LET msg == BotMessage(nextId, jid, text, meta)
             IN /\ store' = Append(store, msg)
                /\ sse' = Broadcast(sse, clientsByRoom, jid, JSONStringify(msg))
                /\ Observe(obs, SendCall(jid, text, meta),
                           Response(0, "resolved", <<>>))

(***************************************************************************)
(* The SSE streams: the keepalive interval, the connection closing under   *)
(* the stream, and the stream's 'close' listener.                          *)
(***************************************************************************)
\* the stream opened without its first comment
NewClientSilent(jid) ==
  [jid |-> jid, conn |-> "open", ended |-> FALSE, closeFired |-> FALSE,
   timer |-> TRUE, out |-> <<>>]

NewClient(jid) ==
  [jid |-> jid, conn |-> "open", ended |-> FALSE, closeFired |-> FALSE,
   timer |-> TRUE, out |-> <<[chunk |-> OkChunk, live |-> TRUE]>>]

Pings(c) == Cardinality({i \in 1..Len(c.out) : c.out[i].chunk = PingChunk})

RECURSIVE TotalPings(_)
TotalPings(s) == IF s = <<>> THEN 0 ELSE Pings(Head(s)) + TotalPings(Tail(s))

TimerTick(c) ==
  /\ UNCHANGED page
  /\ sse[c].timer
  /\ TotalPings(sse) < MaxPings
  /\ sse' = [sse EXCEPT ![c] = ResWrite(@, PingChunk)]
  /\ UNCHANGED <<server, connected, clientsByRoom, groups, inflight, calls, store,
                 nextId, lastOp, resp>>

\* The peer or the network closes the connection; the 'close' event is
\* delivered in a later turn of the event loop.
ConnClose(c) ==
  /\ UNCHANGED page
  /\ sse[c].conn = "open"
  /\ ~sse[c].ended
  /\ sse' = [sse EXCEPT ![c].conn = "closed"]
  /\ UNCHANGED <<server, connected, clientsByRoom, groups, inflight, calls, store,
                 nextId, lastOp, resp>>

\* res.on('close', ...)
CloseEvent(c) ==
  /\ UNCHANGED page
  /\ ~sse[c].closeFired
  /\ sse[c].conn = "closed" \/ sse[c].ended
  /\ sse' = [sse EXCEPT ![c].timer = FALSE, ![c].closeFired = TRUE,
                        ![c].conn = "closed"]
  /\ clientsByRoom' = RemoveClient(clientsByRoom, sse[c].jid, c)
  /\ UNCHANGED <<server, connected, groups, inflight, calls, store, nextId,
                 lastOp, resp>>

(***************************************************************************)
(* handleRequest and the handlers it dispatches to.                        *)
(***************************************************************************)
\* opts.onRegisterGroup is given
OnRegisterGroupGiven == TRUE

HistoryLimit == 50

\* getRecentMessages(jid, limit): the last `limit` stored messages of the room
RECURSIVE OfRoom(_, _)
OfRoom(msgs, jid) ==
  IF msgs = <<>> THEN <<>>
  ELSE IF Head(msgs).chat_jid = jid THEN <<Head(msgs)>> \o OfRoom(Tail(msgs), jid)
       ELSE OfRoom(Tail(msgs), jid)

getRecentMessages(jid, limit) ==
  LET all == OfRoom(store, jid)
  IN IF Len(all) <= limit THEN all ELSE SubSeq(all, Len(all) - limit + 1, Len(all))

\* the list without the filter on the jid
RECURSIVE ListEveryGroup(_)
ListEveryGroup(registry) ==
  IF registry = <<>> THEN <<>>
  ELSE <<[slug |-> Slice(Head(registry).jid, 4), name |-> Head(registry).group.name,
          jid |-> Head(registry).jid, added_at |-> Head(registry).group.added_at]>>
       \o ListEveryGroup(Tail(registry))

\* handleListRooms: the entries whose jid starts with 'web:'
RECURSIVE ListRooms(_)
ListRooms(registry) ==
  IF registry = <<>> THEN <<>>
  ELSE IF StartsWith(Head(registry).jid, WebPrefix)
       THEN <<[slug |-> Slice(Head(registry).jid, 4), name |-> Head(registry).group.name,
               jid |-> Head(registry).jid, added_at |-> Head(registry).group.added_at]>>
            \o ListRooms(Tail(registry))
       ELSE ListRooms(Tail(registry))

\* a request whose body is awaited: what has arrived of it, and whether the
\* request was destroyed
NewBody(kind, room, req) ==
  [kind |-> kind, room |-> room, req |-> req, received |-> 0, destroyed |-> FALSE]

\* cap: how many requests may be awaiting their body at once
Serve(req, obs, cap) ==
  LET r == Route(req, groups)
      Reply(response) ==
        /\ Observe(obs, req, response)
        /\ UNCHANGED <<clientsByRoom, sse, inflight>>
  IN
  /\ server \in {"listening", "closing"}
  /\ r.h = "sse" => Len(sse) < MaxClients
  /\ r.h \in {"send", "createRoom"} => Len(inflight) < cap
  /\ UNCHANGED <<server, connected, groups, calls, store, nextId>>
  /\ CASE r.h = "preflight" -> Reply(Response(204, "empty", <<>>))
       [] r.h = "unauthorizedText" -> Reply(Response(401, "text", <<>>))
       [] r.h = "roomList" -> Reply(Response(200, "roomListPage", <<>>))
       [] r.h = "roomNotFound" -> Reply(Response(404, "text", <<>>))
       [] r.h = "chatPage" -> Reply(Response(200, "chatPage", <<[slug |-> r.room]>>))
       [] r.h = "unauthorizedJson" -> Reply(Response(401, "error", <<>>))
       [] r.h = "listRooms" -> Reply(Response(200, "rooms", ListRooms(groups)))
       [] r.h = "createRoom" ->
            IF ~OnRegisterGroupGiven
            THEN Reply(Response(500, "error", <<>>))
            ELSE /\ inflight' = Append(inflight, NewBody("create", <<>>, req))
                 /\ Observe(obs, req, NoResponse)
                 /\ UNCHANGED <<clientsByRoom, sse>>
       [] r.h = "sse" ->
            /\ sse' = Append(sse, NewClient(WebJid(r.room)))
            /\ clientsByRoom' = AddClient(clientsByRoom, WebJid(r.room), Len(sse) + 1)
            /\ Observe(obs, req, Response(200, "event-stream", <<>>))
            /\ UNCHANGED inflight
       [] r.h = "send" ->
            /\ inflight' = Append(inflight, NewBody("send", r.room, req))
            /\ Observe(obs, req, NoResponse)
            /\ UNCHANGED <<clientsByRoom, sse>>
       [] r.h = "history" ->
            Reply(Response(200, "history", getRecentMessages(WebJid(r.room), HistoryLimit)))
       [] OTHER -> Reply(Response(404, "error", <<>>))

Dispatch(req, obs, cap) == Serve(req, obs, cap) /\ UNCHANGED page

HandleRequest(req, obs) == Dispatch(req, obs, MaxInflight)

RemoveAt(q, i) == SubSeq(q, 1, i - 1) \o SubSeq(q, i + 1, Len(q))

SendBodyLimit == 100000
CreateBodyLimit == 10000

\* The sizes the next chunk of a body can have when `rest` characters are
\* still to come: all of them, or all but the last one.
ChunkSizes(rest) == {n \in {rest, rest - 1} : n >= 1}

\* what is still to come of the body of the request inflight[i]
Rest(i) == inflight[i].req.body.len - inflight[i].received

\* req.on('data', ...) of handleSend and of handleCreateRoom: the chunk is
\* appended to the body; past the limit the request is answered 413 and
\* destroyed.  endStillFires: the chunk completed the body and the stream
\* delivers its 'end' event although it was destroyed.
DataEvent(i, n, endStillFires, obs) ==
  LET e == inflight[i]
      limit == IF e.kind = "send" THEN SendBodyLimit ELSE CreateBodyLimit
      length == e.received + n
  IN
  /\ UNCHANGED page
  /\ ~e.destroyed
  /\ n \in ChunkSizes(Rest(i))
  /\ endStillFires => length > limit /\ length = e.req.body.len
  /\ UNCHANGED <<server, connected, clientsByRoom, sse, groups, calls, store, nextId>>
  /\ IF length > limit
     THEN /\ Observe(obs, e.req, Response(413, "tooLarge", <<>>))
          /\ inflight' = IF endStillFires
                         THEN [inflight EXCEPT ![i].received = length,
                                               ![i].destroyed = TRUE]
                         ELSE RemoveAt(inflight, i)
     ELSE /\ inflight' = [inflight EXCEPT ![i].received = length]
          /\ UNCHANGED <<lastOp, resp>>

MetadataCall(jid, timestamp, name) ==
  [cb |-> "onChatMetadata", jid |-> jid, timestamp |-> timestamp, name |-> name,
   channel |-> "web", isGroup |-> FALSE]
MessageCall(jid, msg) == [cb |-> "onMessage", jid |-> jid, msg |-> msg]
RegisterCall(jid, group) == [cb |-> "onRegisterGroup", jid |-> jid, group |-> group]

UserMessage(n, jid, text) ==
  NewMessage("web", n, jid, <<"u", "s", "e", "r">>, <<"Y", "o", "u">>, Trim(text),
             TRUE, FALSE)

\* The orchestrator's inbound-message callback persists the message it is
\* handed: it appends it to the store the history is read from.
OnMessage(messages, msg) == Append(messages, msg)

\* the test of the text field made after the room lookup
SendValidationAfterRoom(body, registry, jid) ==
  IF body.parse # "object" THEN "invalidJson"
  ELSE IF ~HasGroup(registry, jid) THEN "roomNotFound"
  ELSE IF ~Truthy(body.prop) \/ body.prop.t # "string" THEN "missingText"
  ELSE "ok"

\* an unregistered room reported as a missing text
SendValidationRoomAsText(body, registry, jid) ==
  IF body.parse # "object" THEN "invalidJson"
  ELSE IF ~Truthy(body.prop) \/ body.prop.t # "string" THEN "missingText"
  ELSE IF ~HasGroup(registry, jid) THEN "missingText"
  ELSE "ok"

\* The checks of the 'end' listener of handleSend, in their order.
SendValidation(body, registry, jid) ==
  IF body.parse # "object" THEN "invalidJson"
  ELSE IF ~Truthy(body.prop) \/ body.prop.t # "string" THEN "missingText"
  ELSE IF ~HasGroup(registry, jid) THEN "roomNotFound"
  ELSE "ok"

\* the 'end' listener of handleSend with the broadcast made before the
\* callbacks are called
SendEndPublishFirst(i, thrower, obs) ==
  LET e == inflight[i]
      body == e.req.body
      Reply(response) ==
        Observe(obs, e.req, IF e.destroyed THEN Response(413, "tooLarge", <<>>)
                            ELSE response)
      jid == WebJid(e.room)
      v == SendValidation(body, groups, jid)
      msg == UserMessage(nextId, jid, body.prop.v)
      meta == MetadataCall(jid, nextId, GetGroup(groups, jid).name)
  IN
  /\ UNCHANGED page
  /\ e.kind = "send"
  /\ e.received = body.len
  /\ inflight' = RemoveAt(inflight, i)
  /\ UNCHANGED <<server, connected, clientsByRoom, groups>>
  /\ IF v # "ok"
     THEN /\ thrower = "none"
          /\ Reply(Response(IF v = "roomNotFound" THEN 404 ELSE 400, v, <<>>))
          /\ UNCHANGED <<sse, calls, store, nextId>>
     ELSE /\ nextId <= MaxMsgs
          /\ nextId' = nextId + 1
          /\ thrower \in {"none", "onChatMetadata", "onMessage"}
          /\ sse' = Broadcast(sse, clientsByRoom, jid, JSONStringify(msg))
          /\ CASE thrower = "onChatMetadata" ->
                    /\ calls' = Append(calls, meta)
                    /\ Reply(Response(400, "invalidJson", <<>>))
                    /\ UNCHANGED store
               [] thrower = "onMessage" ->
                    /\ calls' = calls \o <<meta, MessageCall(jid, msg)>>
                    /\ Reply(Response(400, "invalidJson", <<>>))
                    /\ UNCHANGED store
               [] OTHER ->
                    /\ calls' = calls \o <<meta, MessageCall(jid, msg)>>
                    /\ store' = OnMessage(store, msg)
                    /\ Reply(Response(200, "sent", <<msg>>))

\* req.on('end', ...) of handleSend.  thrower: the callback that throws, if any.
SendEnd(i, thrower, obs) ==
  LET e == inflight[i]
      body == e.req.body
      Reply(response) ==
        Observe(obs, e.req, IF e.destroyed THEN Response(413, "tooLarge", <<>>)
                            ELSE response)
      jid == WebJid(e.room)
      v == SendValidation(body, groups, jid)
      msg == UserMessage(nextId, jid, body.prop.v)
      meta == MetadataCall(jid, nextId, GetGroup(groups, jid).name)
  IN
  /\ UNCHANGED page
  /\ e.kind = "send"
  /\ e.received = body.len
  /\ inflight' = RemoveAt(inflight, i)
  /\ UNCHANGED <<server, connected, clientsByRoom, groups>>
  /\ IF v # "ok"
     THEN /\ thrower = "none"
          /\ Reply(Response(IF v = "roomNotFound" THEN 404 ELSE 400, v, <<>>))
          /\ UNCHANGED <<sse, calls, store, nextId>>
     ELSE /\ nextId <= MaxMsgs
          /\ nextId' = nextId + 1
          /\ thrower \in {"none", "onChatMetadata", "onMessage"}
          /\ CASE thrower = "onChatMetadata" ->
                    /\ calls' = Append(calls, meta)
                    /\ Reply(Response(400, "invalidJson", <<>>))
                    /\ UNCHANGED <<sse, store>>
               [] thrower = "onMessage" ->
                    /\ calls' = calls \o <<meta, MessageCall(jid, msg)>>
                    /\ Reply(Response(400, "invalidJson", <<>>))
                    /\ UNCHANGED <<sse, store>>
               [] OTHER ->
                    /\ calls' = calls \o <<meta, MessageCall(jid, msg)>>
                    /\ store' = OnMessage(store, msg)
                    /\ sse' = Broadcast(sse, clientsByRoom, jid, JSONStringify(msg))
                    /\ Reply(Response(200, "sent", <<msg>>))

\* the checks without the one that refuses a registered identifier
CreateValidationNoConflict(body, registry) ==
  IF body.parse # "object" THEN "invalidJson"
  ELSE IF ~Truthy(body.prop) \/ body.prop.t # "string" THEN "missingName"
  ELSE IF Slugify(body.prop.v) = <<>> THEN "invalidName"
  ELSE "ok"

\* the checks without the one that refuses an empty identifier
CreateValidationNoEmpty(body, registry) ==
  IF body.parse # "object" THEN "invalidJson"
  ELSE IF ~Truthy(body.prop) \/ body.prop.t # "string" THEN "missingName"
  ELSE IF HasGroup(registry, WebJid(Slugify(body.prop.v))) THEN "exists"
  ELSE "ok"

\* the checks made against the registry the channel started with
CreateValidationStale(body, registry) ==
  IF body.parse # "object" THEN "invalidJson"
  ELSE IF ~Truthy(body.prop) \/ body.prop.t # "string" THEN "missingName"
  ELSE IF Slugify(body.prop.v) = <<>> THEN "invalidName"
  ELSE IF HasGroup(InitialGroups, WebJid(Slugify(body.prop.v))) THEN "exists"
  ELSE "ok"

\* The checks of the 'end' listener of handleCreateRoom, in their order.
CreateValidation(body, registry) ==
  IF body.parse # "object" THEN "invalidJson"
  ELSE IF ~Truthy(body.prop) \/ body.prop.t # "string" THEN "missingName"
  ELSE IF Slugify(body.prop.v) = <<>> THEN "invalidName"
  ELSE IF HasGroup(registry, WebJid(Slugify(body.prop.v))) THEN "exists"
  ELSE "ok"

\* req.on('end', ...) of handleCreateRoom.  onRegisterGroup records the group
\* in the registry that registeredGroups() returns.
CreateEnd(i, thrower, obs) ==
  LET e == inflight[i]
      body == e.req.body
      Reply(response) ==
        Observe(obs, e.req, IF e.destroyed THEN Response(413, "tooLarge", <<>>)
                            ELSE response)
      v == CreateValidation(body, groups)
      name == body.prop.v
      slug == Slugify(name)
      jid == WebJid(slug)
      group == RegisteredGroup(name, slug, nextId)
  IN
  /\ UNCHANGED page
  /\ e.kind = "create"
  /\ e.received = body.len
  /\ inflight' = RemoveAt(inflight, i)
  /\ UNCHANGED <<server, connected, clientsByRoom, sse, store, nextId>>
  /\ IF v # "ok"
     THEN /\ thrower = "none"
          /\ Reply(Response(IF v = "exists" THEN 409 ELSE 400, v,
                              IF v = "exists" THEN <<[slug |-> slug]>> ELSE <<>>))
          /\ UNCHANGED <<groups, calls>>
     ELSE /\ thrower \in {"none", "onRegisterGroup", "onChatMetadata"}
          /\ CASE thrower = "onRegisterGroup" ->
                    /\ calls' = Append(calls, RegisterCall(jid, group))
                    /\ Reply(Response(400, "invalidJson", <<>>))
                    /\ UNCHANGED groups
               [] thrower = "onChatMetadata" ->
                    /\ calls' = calls \o <<RegisterCall(jid, group),
                                           MetadataCall(jid, group.added_at, name)>>
                    /\ groups' = Append(groups, [jid |-> jid, group |-> group])
                    /\ Reply(Response(400, "invalidJson", <<>>))
               [] OTHER ->
                    /\ calls' = calls \o <<RegisterCall(jid, group),
                                           MetadataCall(jid, group.added_at, name)>>
                    /\ groups' = Append(groups, [jid |-> jid, group |-> group])
                    /\ Reply(Response(201, "created",
                                        <<[slug |-> slug, name |-> name, jid |-> jid]>>))

(***************************************************************************)
(* The requests and calls the environment makes.                           *)
(***************************************************************************)
PathRoot == <<>>
PathUi(slug) == <<SegR, Lit(slug)>>
PathRooms == <<SegApi, SegRooms>>
PathRoom(slug, seg) == <<SegApi, SegRooms, Lit(slug), seg>>
\* /api/rooms/%61/events: the room segment written with a percent escape
PathEscaped == <<SegApi, SegRooms, << <<"%", "a">> >>, SegEvents>>

QueryToken == Some(Token)
BearerToken == Some(BearerPrefix \o Token)

\* The requests of authenticated clients that reach the hub.
HubReqs ==
  {Request("GET", PathRoom(SlugA, SegEvents), QueryToken, None, NoBody),
   Request("GET", PathRoom(SlugB, SegEvents), QueryToken, None, NoBody),
   Request("POST", PathRoom(SlugA, SegSend), None, BearerToken,
           Body("object", JSString(<<"h">>)))}

Jids == {WebJid(SlugA), WebJid(SlugB), TgJid}
Texts == {<<"h">>}
Metas == {None}

\* The hub: streams are opened and closed, messages are published by the
\* orchestrator and by the send endpoint, the channel is shut down.
Next ==
  \/ Connect
  \/ Listening
  \/ Disconnect
  \/ ServerClosed
  \/ \E req \in HubReqs : HandleRequest(req, FALSE)
  \/ \E i \in 1..Len(inflight) : \E n \in ChunkSizes(Rest(i)) :
       DataEvent(i, n, FALSE, FALSE)
  \/ \E i \in 1..Len(inflight) : SendEnd(i, "none", TRUE)
  \/ \E jid \in Jids : \E text \in Texts : \E meta \in Metas :
       SendMessage(jid, text, meta, TRUE, FALSE)
  \/ \E c \in 1..Len(sse) : TimerTick(c)
  \/ \E c \in 1..Len(sse) : ConnClose(c)
  \/ \E c \in 1..Len(sse) : CloseEvent(c)

Spec == Init /\ [][Next]_vars

(***************************************************************************)
(* Publication seen by its caller: sendMessage with every input and the    *)
(* send endpoint, while streams are opened and closed.                     *)
(***************************************************************************)
SseReqs ==
  {Request("GET", PathRoom(SlugA, SegEvents), QueryToken, None, NoBody),
   Request("GET", PathRoom(SlugB, SegEvents), QueryToken, None, NoBody)}

SenderOverrides == {None, Some(<<"R">>)}

OutboundNext ==
  \/ Connect
  \/ Listening
  \/ \E req \in HubReqs : HandleRequest(req, FALSE)
  \/ \E i \in 1..Len(inflight) : \E n \in ChunkSizes(Rest(i)) :
       DataEvent(i, n, FALSE, FALSE)
  \/ \E i \in 1..Len(inflight) : SendEnd(i, "none", TRUE)
  \/ \E jid \in Jids : \E text \in Texts : \E meta \in SenderOverrides :
       \E storeOk \in BOOLEAN : SendMessage(jid, text, meta, storeOk, TRUE)
  \/ \E c \in 1..Len(sse) : ConnClose(c)
  \/ \E c \in 1..Len(sse) : CloseEvent(c)

OutboundSpec == Init /\ [][OutboundNext]_vars

(***************************************************************************)
(* The router seen by its clients: every method on every path, with and    *)
(* without credentials.                                                    *)
(***************************************************************************)
Methods == {"GET", "POST", "OPTIONS"}

\* /api/rooms/a, without a suffix, and /api/rooms/a/z/events
PathBare == <<SegApi, SegRooms, Lit(SlugA)>>
PathDeep == <<SegApi, SegRooms, Lit(SlugA), SegOther, SegEvents>>

Paths ==
  {PathRoot, PathUi(SlugA), PathUi(SlugB), PathRooms,
   PathRoom(SlugA, SegEvents), PathRoom(SlugB, SegEvents),
   PathRoom(SlugA, SegSend), PathRoom(SlugB, SegSend),
   PathRoom(SlugA, SegHistory), PathRoom(SlugA, SegOther), PathEscaped,
   <<SegApi, SegOther>>, <<SegOther>>, PathBare, PathDeep}

\* the credentials a request carries: (token query parameter, Authorization)
Credentials ==
  {<<None, None>>, <<QueryToken, None>>, <<None, BearerToken>>,
   <<Some(<<"t">>), None>>}

\* near misses of the secret and of the Bearer scheme
NearCredentials ==
  {<<Some(Token \o <<"k">>), None>>, <<Some(<<>>), None>>,
   <<None, Some(BearerPrefix \o Token \o <<"k">>)>>, <<None, Some(Token)>>,
   <<None, Some(BearerPrefix \o <<"t">>)>>,
   <<None, Some(toLowerCase(BearerPrefix) \o Token)>>,
   <<None, Some(<<"B", "e", "a", "r", "e", "r">> \o Token)>>,
   <<None, Some(BearerPrefix)>>,
   <<Some(<<"t">>), BearerToken>>, <<QueryToken, Some(Token)>>}

RouterReqs ==
  {Request(m, p, c[1], c[2], NoBody) : m \in Methods, p \in Paths, c \in Credentials}
  \cup {Request("GET", PathRooms, c[1], c[2], NoBody) : c \in NearCredentials}
  \cup {Request("GET", PathRoot, c[1], c[2], NoBody) : c \in NearCredentials}

RouterNext ==
  \/ Connect
  \/ Listening
  \/ \E req \in RouterReqs : HandleRequest(req, TRUE)
  \/ \E i \in 1..Len(inflight) : SendEnd(i, "none", TRUE)
  \/ \E i \in 1..Len(inflight) : CreateEnd(i, "none", TRUE)

RouterSpec == Init /\ [][RouterNext]_vars

(***************************************************************************)
(* The gateway seen without the secret: requests with no credential or a   *)
(* wrong one, while rooms are created and streams opened by clients that   *)
(* hold the secret.                                                        *)
(***************************************************************************)
PublicReqs ==
  {Request(m, p, c[1], c[2], NoBody) :
     m \in Methods, p \in Paths, c \in {<<None, None>>, <<Some(<<"t">>), None>>}}

MemberReqs ==
  {Request("GET", PathRoom(SlugA, SegEvents), QueryToken, None, NoBody),
   Request("GET", PathRoom(SlugB, SegEvents), QueryToken, None, NoBody),
   Request("POST", PathRooms, QueryToken, None, Body("object", JSString(SlugB)))}

PublicNext ==
  \/ Connect
  \/ Listening
  \/ \E req \in PublicReqs \cup MemberReqs : HandleRequest(req, TRUE)
  \/ \E i \in 1..Len(inflight) : \E n \in ChunkSizes(Rest(i)) :
       DataEvent(i, n, FALSE, TRUE)
  \/ \E i \in 1..Len(inflight) : CreateEnd(i, "none", TRUE)

PublicSpec == Init /\ [][PublicNext]_vars

(***************************************************************************)
(* Ingestion seen by its clients: the send endpoint with every body, for a *)
(* registered and an unregistered room, while streams are open.            *)
(***************************************************************************)
SendReqs ==
  {Request("POST", PathRoom(slug, SegSend), QueryToken, None, body) :
     slug \in Slugs, body \in SendBodies}

Throwers == {"none", "onChatMetadata", "onMessage"}

IngestNext ==
  \/ Connect
  \/ Listening
  \/ \E req \in SseReqs \cup SendReqs : HandleRequest(req, FALSE)
  \/ \E i \in 1..Len(inflight) : \E n \in ChunkSizes(Rest(i)) :
       DataEvent(i, n, FALSE, FALSE)
  \/ \E i \in 1..Len(inflight) : \E thrower \in Throwers : SendEnd(i, thrower, TRUE)

IngestSpec == Init /\ [][IngestNext]_vars

(***************************************************************************)
(* The round trip seen by its clients: messages are sent to a room, by the *)
(* send endpoint and by sendMessage, while streams are open, and the       *)
(* history of the rooms is fetched.                                        *)
(***************************************************************************)
RoundTripReqs ==
  SseReqs
  \cup {Request("POST", PathRoom(SlugA, SegSend), QueryToken, None,
                Body("object", JSString(text))) : text \in {<<"h">>, <<" ", "g">>}}
  \cup {Request("GET", PathRoom(slug, SegHistory), QueryToken, None, NoBody) :
          slug \in Slugs}

RoundTripNext ==
  \/ Connect
  \/ Listening
  \/ \E req \in RoundTripReqs : HandleRequest(req, TRUE)
  \/ \E i \in 1..Len(inflight) : \E n \in ChunkSizes(Rest(i)) :
       DataEvent(i, n, FALSE, TRUE)
  \/ \E i \in 1..Len(inflight) : SendEnd(i, "none", TRUE)
  \/ \E jid \in {WebJid(SlugA), WebJid(SlugB)} : \E storeOk \in BOOLEAN :
       SendMessage(jid, <<"h">>, None, storeOk, TRUE)
  \/ \E c \in 1..Len(sse) : ConnClose(c)
  \/ \E c \in 1..Len(sse) : CloseEvent(c)

RoundTripSpec == Init /\ [][RoundTripNext]_vars

(***************************************************************************)
(* The body-size guard seen by its clients: send requests whose body is at *)
(* the limit and just past it, arriving in chunks.                         *)
(***************************************************************************)
LongBodies == {LongBody(SendBodyLimit + d) : d \in 0..2}

BodyReqs ==
  {Request("GET", PathRoom(SlugA, SegEvents), QueryToken, None, NoBody)}
  \cup {Request("POST", PathRoom(SlugA, SegSend), QueryToken, None, body) :
          body \in LongBodies}

BodyNext ==
  \/ Connect
  \/ Listening
  \/ \E req \in BodyReqs : HandleRequest(req, TRUE)
  \/ \E i \in 1..Len(inflight) : \E n \in ChunkSizes(Rest(i)) :
       \E endStillFires \in BOOLEAN : DataEvent(i, n, endStillFires, TRUE)
  \/ \E i \in 1..Len(inflight) : SendEnd(i, "none", TRUE)

BodySpec == Init /\ [][BodyNext]_vars

(***************************************************************************)
(* Room creation seen by its clients: names of every shape, each through   *)
(* POST /api/rooms.                                                        *)
(***************************************************************************)
MaxRooms == 1

NameChars == {"a", "B", "1", " ", "-"}

MyProject == <<"M", "y", " ", "P", "r", "o", "j", "e", "c", "t">>
WorkStuff == <<"W", "o", "r", "k", " ", "S", "t", "u", "f", "f", "!", "!">>

Names ==
  {<<c>> : c \in NameChars} \cup {<<c, d>> : c, d \in NameChars}
  \cup {MyProject, WorkStuff, <<"a", " ", "-", "B">>, <<"-", "-", "a", "-", "-">>,
        <<" ", "1", " ", " ", "a", " ">>}

\* the identifiers the endpoint hands out, sent back to it as names
DerivedNames == {Slugify(name) : name \in Names} \ {<<>>}

RoomReqs ==
  {Request("POST", PathRooms, None, BearerToken, Body("object", JSString(name))) :
     name \in Names \cup DerivedNames}
  \cup {Request("GET", PathRooms, None, BearerToken, NoBody)}

RoomsNext ==
  \/ Connect
  \/ Listening
  \/ \E req \in RoomReqs : HandleRequest(req, TRUE)
  \/ \E i \in 1..Len(inflight) : \E n \in ChunkSizes(Rest(i)) :
       DataEvent(i, n, FALSE, TRUE)
  \/ \E i \in 1..Len(inflight) :
       /\ CreateValidation(inflight[i].req.body, groups) = "ok"
            => Len(groups) < Len(InitialGroups) + MaxRooms
       /\ CreateEnd(i, "none", TRUE)

RoomsSpec == Init /\ [][RoomsNext]_vars

(***************************************************************************)
(* Create requests racing: two requests may await their body at once, and  *)
(* their names derive to the same identifier.  Node delivers the 'data'    *)
(* and 'end' events of a request whose body has arrived.                   *)
(***************************************************************************)
MaxRaces == 2

RaceNames == {<<"B">>, <<"b", " ">>, <<"1">>}

RaceReqs ==
  {Request("POST", PathRooms, None, BearerToken, Body("object", JSString(name))) :
     name \in RaceNames}

RaceNext ==
  \/ Connect
  \/ Listening
  \/ \E req \in RaceReqs : Dispatch(req, TRUE, MaxRaces)
  \/ \E i \in 1..Len(inflight) : \E n \in ChunkSizes(Rest(i)) :
       DataEvent(i, n, FALSE, TRUE)
  \/ \E i \in 1..Len(inflight) : CreateEnd(i, "none", TRUE)

RaceSpec == Init /\ [][RaceNext]_vars

FairRaceSpec ==
  /\ RaceSpec
  /\ WF_vars(\E i \in 1..Len(inflight) : \E n \in ChunkSizes(Rest(i)) :
               DataEvent(i, n, FALSE, TRUE))
  /\ WF_vars(\E i \in 1..Len(inflight) : CreateEnd(i, "none", TRUE))

(***************************************************************************)
(* The chat page of room a (web-ui) and the hub: the page loads, fetches   *)
(* the history and opens its stream; messages are sent to the room; the    *)
(* connection of the stream closes and the page reconnects.  The page is   *)
(* the only client that opens streams, so the stream of its current        *)
(* EventSource is the one numbered page.opened.                            *)
(***************************************************************************)
PageRoom == SlugA

PageHistoryReq ==
  Request("GET", PathRoom(PageRoom, SegHistory), QueryToken, None, NoBody)

PageEventsReq ==
  Request("GET", PathRoom(PageRoom, SegEvents), QueryToken, None, NoBody)

hubVars == <<server, connected, clientsByRoom, sse, groups, inflight, calls, store,
             nextId, lastOp, resp>>

\* The script of the page runs: fetch(history) is sent and connectSSE()
\* creates the first EventSource.
PageLoad ==
  /\ server = "listening"
  /\ page.es = "none"
  /\ page' = [page EXCEPT !.es = "open", !.opened = 1, !.hist = "sent"]
  /\ UNCHANGED hubVars

\* the hub answers the history fetch of the page
PageHistoryServed ==
  /\ page.hist = "sent"
  /\ Serve(PageHistoryReq, TRUE, MaxInflight)
  /\ page' = [page EXCEPT !.hist = "answered", !.pending = resp'.data]

\* .then(msgs => { msgs.forEach(appendMessage); ... })
PageHistoryLoaded ==
  /\ page.hist = "answered"
  /\ page' = [page EXCEPT !.hist = "done", !.pending = <<>>,
                          !.seenIds = @ \cup {page.pending[k].id :
                                                k \in 1..Len(page.pending)}]
  /\ UNCHANGED hubVars

\* the hub takes the stream request of the page's current EventSource
PageStreamServed ==
  /\ page.es = "open"
  /\ Len(sse) < page.opened
  /\ HandleRequest(PageEventsReq, FALSE)

\* The next chunk of the stream reaches the page.  A chunk written after the
\* connection closed never arrives; a comment is dropped by the EventSource;
\* the 'message' listener hands a message to appendMessage.
PageMessage ==
  /\ page.es = "open"
  /\ Len(sse) = page.opened
  /\ page.read < Len(sse[page.opened].out)
  /\ LET ch == sse[page.opened].out[page.read + 1]
     IN page' = [page EXCEPT !.read = @ + 1,
                             !.seenIds = IF ch.live /\ ch.chunk[1] = "message"
                                         THEN @ \cup {ch.chunk[2][1][2]}
                                         ELSE @]
  /\ UNCHANGED hubVars

\* evtSource.onerror: the connection of the stream is gone; the page closes
\* the EventSource and arms setTimeout(connectSSE, 3000).
PageError ==
  /\ page.es = "open"
  /\ Len(sse) = page.opened
  /\ sse[page.opened].conn = "closed" \/ sse[page.opened].ended
  /\ page' = [page EXCEPT !.es = "waiting"]
  /\ UNCHANGED hubVars

\* The timeout fires: connectSSE() creates a new EventSource.
PageTimer ==
  /\ page.es = "waiting"
  /\ page.opened < MaxClients
  /\ page' = [page EXCEPT !.es = "open", !.opened = @ + 1, !.read = 0]
  /\ UNCHANGED hubVars

PageNext ==
  \/ Connect
  \/ Listening
  \/ PageLoad
  \/ PageHistoryServed
  \/ PageHistoryLoaded
  \/ PageStreamServed
  \/ PageMessage
  \/ PageError
  \/ PageTimer
  \/ SendMessage(WebJid(PageRoom), <<"h">>, None, TRUE, FALSE)
  \/ \E c \in 1..Len(sse) : ConnClose(c)
  \/ \E c \in 1..Len(sse) : CloseEvent(c)

PageSpec == Init /\ [][PageNext]_vars

(***************************************************************************)
(* Properties.                                                             *)
(***************************************************************************)
\* the step publishes a message: sendMessage stored it, or the 'end'
\* listener of the send endpoint answered 200 with it
StoredNow == Len(store') = Len(store) + 1
SentNow == Len(inflight') < Len(inflight) /\ resp'.kind = "sent"
PublishedNow ==
  (IF StoredNow THEN {store'[Len(store')]} ELSE {})
  \cup (IF SentNow THEN {resp'.data[1]} ELSE {})

\* client c is in the list the table holds for the room
RegisteredUnder(c, jid) ==
  /\ jid \in DOMAIN clientsByRoom
  /\ \E i \in 1..Len(clientsByRoom[jid]) : clientsByRoom[jid][i] = c

\* the step hands exactly the event of message m to the stream of client c
WritesEvent(c, m) ==
  /\ Len(sse'[c].out) = Len(sse[c].out) + 1
  /\ SubSeq(sse'[c].out, 1, Len(sse[c].out)) = sse[c].out
  /\ sse'[c].out[Len(sse'[c].out)].chunk = MessageEvent(JSONStringify(m))

\* the chunks of client c that carry a message
MessageChunks(c) ==
  {i \in 1..Len(sse[c].out) : sse[c].out[i].chunk[1] = "message"}

\* C1: room isolation.  A step that publishes a message to room r writes its
\* event to every client registered under r, each of which subscribed to r,
\* and writes nothing to any other client.
C1_RoomIsolation ==
  [][\A m \in PublishedNow : \A c \in 1..Len(sse) :
       IF RegisteredUnder(c, m.chat_jid)
       THEN WritesEvent(c, m) /\ sse[c].jid = m.chat_jid
       ELSE sse'[c].out = sse[c].out]_vars

\* C1 witness: two rooms have a registered subscriber each; the one that
\* subscribed later has received a message, the earlier one none.
C1_Witness ==
  \E c1, c2 \in 1..Len(sse) :
    /\ c2 < c1
    /\ sse[c1].jid # sse[c2].jid
    /\ RegisteredUnder(c1, sse[c1].jid)
    /\ RegisteredUnder(c2, sse[c2].jid)
    /\ MessageChunks(c1) # {}
    /\ MessageChunks(c2) = {}

\* C2: a subscriber whose connection has closed is never written to again:
\* no chunk, message or heartbeat, is handed to a stream whose sink is no
\* longer live, also between the connection closing and the 'close' listener.
C2_NoWriteAfterClose ==
  \A c \in 1..Len(sse) : \A i \in 1..Len(sse[c].out) : sse[c].out[i].live

\* C3: every key of the subscriber table maps to a non-empty list, in every
\* state, so also right after the last subscriber of a room has closed.
C3_NoEmptyRoom ==
  \A jid \in DOMAIN clientsByRoom : Len(clientsByRoom[jid]) > 0

\* C3 witness: the channel was never shut down, the only subscriber of a
\* room has closed, and the room has no key while another room has one.
C3_Witness ==
  /\ connected
  /\ \E c1, c2 \in 1..Len(sse) :
       /\ sse[c1].closeFired
       /\ sse[c1].jid \notin DOMAIN clientsByRoom
       /\ RegisteredUnder(c2, sse[c2].jid)

\* the step is the body of disconnect(): it closes the server or ends a stream
DisconnectsNow ==
  \/ server' \in {"closing", "closed"} /\ server \in {"starting", "listening"}
  \/ \E c \in 1..Len(sse) : sse'[c].ended /\ ~sse[c].ended

\* the step is the 'close' listener of client c
CloseFiresNow(c) == sse'[c].closeFired /\ ~sse[c].closeFired

\* C4: shutdown.  When disconnect() has run, every subscriber that was
\* registered has its stream ended and its keepalive timer cancelled, the
\* table is empty and isConnected() is false; the 'close' listener of a
\* stream ended by disconnect() leaves the table as it is.
C4_Shutdown ==
  [][/\ DisconnectsNow =>
          /\ \A c \in 1..Len(sse) :
               InTable(c) => sse'[c].ended /\ ~sse'[c].timer
          /\ clientsByRoom' = <<>>
          /\ connected' = FALSE
     /\ \A c \in 1..Len(sse) :
          CloseFiresNow(c) /\ sse[c].ended => clientsByRoom' = clientsByRoom]_vars

\* C4 witness: subscribers of two rooms were ended by disconnect(), the
\* 'close' listener of one of them has run, and the table is empty.
C4_Witness ==
  /\ ~connected
  /\ clientsByRoom = <<>>
  /\ \E c1, c2 \in 1..Len(sse) :
       /\ sse[c1].jid # sse[c2].jid
       /\ sse[c1].ended /\ sse[c1].closeFired
       /\ sse[c2].ended /\ ~sse[c2].closeFired

\* C5: a step that publishes to a room without a key in the table writes to
\* no stream, leaves the table unchanged, and ends without an error:
\* sendMessage resolves, the send endpoint answers 200.
C5_PublishToEmptyRoom ==
  [][\A m \in PublishedNow :
       m.chat_jid \notin DOMAIN clientsByRoom =>
         /\ sse' = sse
         /\ clientsByRoom' = clientsByRoom
         /\ resp'.kind \in {"resolved", "sent"}]_vars

\* C5 witness: a message was published to a room while the only subscriber
\* there ever was is registered under another room; nothing was written to it.
C5_Witness ==
  /\ store # <<>>
  /\ store[Len(store)].chat_jid \notin DOMAIN clientsByRoom
  /\ resp.kind = "resolved"
  /\ Len(sse) = 1
  /\ RegisteredUnder(1, sse[1].jid)
  /\ sse[1].conn = "open"
  /\ MessageChunks(1) = {}

\* C6: best-effort fan-out.  In a step that publishes to a room, a client
\* whose write fails does not keep the clients after it in the room's list
\* from being written to.
C6_BestEffortFanOut ==
  [][\A m \in PublishedNow :
       m.chat_jid \in DOMAIN clientsByRoom =>
         \A i, j \in 1..Len(clientsByRoom[m.chat_jid]) :
           i < j /\ ~SinkLive(sse[clientsByRoom[m.chat_jid][i]])
             => WritesEvent(clientsByRoom[m.chat_jid][j], m)]_vars

\* C6 witness: one message was written to two clients of a room; the write
\* to the earlier one failed, the write to the later one reached a live sink.
C6_Witness ==
  \E c1, c2 \in 1..Len(sse) :
    /\ c1 < c2
    /\ sse[c1].jid = sse[c2].jid
    /\ \E i \in MessageChunks(c1) : \E j \in MessageChunks(c2) :
         /\ sse[c1].out[i].chunk = sse[c2].out[j].chunk
         /\ ~sse[c1].out[i].live
         /\ sse[c2].out[j].live

\* C7: a failed write, of a message or of the heartbeat, removes the
\* subscriber from the table and cancels its keepalive timer.
C7_FailedWriteRemoves ==
  \A c \in 1..Len(sse) :
    (\E i \in 1..Len(sse[c].out) : ~sse[c].out[i].live)
      => ~InTable(c) /\ ~sse[c].timer

\* the request carries the secret: as the token parameter of the query, or
\* as an Authorization header that is 'Bearer ' followed by the secret
CarriesSecret(req) ==
  req.query = Some(Token) \/ req.auth = Some(BearerPrefix \o Token)

\* GET /, GET /r/{room}, any path under /api/
ProtectedPath(req) ==
  \/ req.method = "GET" /\ req.path = <<>>
  \/ req.method = "GET" /\ Len(req.path) = 2 /\ req.path[1] = SegR /\ req.path[2] # <<>>
  \/ Len(req.path) >= 2 /\ req.path[1] = SegApi

\* no subscriber is registered, no callback is called, nothing is stored,
\* nothing is published, no body is awaited
NoHandlerEffect == UNCHANGED effectVars /\ inflight' = inflight

\* C8 as stated: the request handled in a step, when it goes to a protected
\* path without the secret, is answered 401 and has no handler effect.
C8_AuthGateAnyMethod ==
  [][lastOp' # None /\ ProtectedPath(lastOp'[1]) /\ ~CarriesSecret(lastOp'[1])
       => resp'.status = 401 /\ NoHandlerEffect]_vars

\* C8: authentication gate.  A request of a method other than OPTIONS to a
\* protected path without the secret is answered 401 and has no handler
\* effect; an OPTIONS request is answered 204 whatever it carries, and has
\* no handler effect either.
C8_AuthGate ==
  [][lastOp' # None =>
       /\ (/\ lastOp'[1].method # "OPTIONS"
           /\ ProtectedPath(lastOp'[1])
           /\ ~CarriesSecret(lastOp'[1]))
            => resp'.status = 401 /\ NoHandlerEffect
       /\ lastOp'[1].method = "OPTIONS"
            => resp'.status = 204 /\ NoHandlerEffect]_vars

\* C8 witness: a POST to the send endpoint of a room with a subscriber,
\* carrying a wrong token, was answered 401.
C8_Witness ==
  /\ lastOp = Some(Request("POST", PathRoom(SlugA, SegSend), Some(<<"t">>), None,
                           NoBody))
  /\ resp.status = 401
  /\ RegisteredUnder(1, WebJid(SlugA))

\* C9: a request to a protected route is let through (not answered 401) if
\* and only if its token parameter is the secret or its Authorization header
\* is 'Bearer ' followed by the secret; either carrier alone is enough.
C9_AuthenticateExactly ==
  lastOp # None /\ lastOp[1].method # "OPTIONS" /\ ProtectedPath(lastOp[1])
    => (resp.status # 401 <=> CarriesSecret(lastOp[1]))

\* C9 witness: a request with a wrong token parameter and the right Bearer
\* header was let through.
C9_Witness ==
  /\ lastOp = Some(Request("GET", PathRooms, Some(<<"t">>), BearerToken, NoBody))
  /\ resp.status = 200

\* the body is an object whose text is missing, empty or not a string
MissingText(body) ==
  body.parse = "object" /\ (body.prop.t # "string" \/ body.prop.v = <<>>)

\* C10: the 'end' listener of a send request whose text is missing, empty or
\* not a string answers 400, calls no callback, stores nothing and writes to
\* no subscriber, whether or not the room is registered.
C10_MissingTextRejected ==
  [][\A i \in 1..Len(inflight) :
       /\ inflight' = RemoveAt(inflight, i)
       /\ inflight[i].kind = "send"
       /\ MissingText(inflight[i].req.body)
       => /\ lastOp' = Some(inflight[i].req)
          /\ resp'.status = 400
          /\ UNCHANGED effectVars]_vars

\* C10 witness: a send request without text for an unregistered room that
\* has a subscriber was answered 400.
C10_Witness ==
  /\ lastOp = Some(Request("POST", PathRoom(SlugB, SegSend), QueryToken, None,
                           Body("object", JSUndefined)))
  /\ resp.status = 400
  /\ ~HasGroup(groups, WebJid(SlugB))
  /\ RegisteredUnder(1, WebJid(SlugB))

\* the 'end' listener of the send request inflight[i] runs in this step
SendEndsNow(i) ==
  /\ inflight' = RemoveAt(inflight, i)
  /\ inflight[i].kind = "send"
  /\ inflight[i].received = inflight[i].req.body.len

\* the body is an object whose text is a string
StringText(body) == body.parse = "object" /\ body.prop.t = "string"

\* the body is an object whose text is a string that is not empty once trimmed
ValidText(body) == StringText(body) /\ Trim(body.prop.v) # <<>>

\* C11: the 'end' listener of a send request whose text is a string that is
\* empty after trimming answers with a client error and does nothing else: no
\* callback is called, nothing is stored, no subscriber is written to.
C11_BlankTextRejected ==
  [][\A i \in 1..Len(inflight) :
       /\ SendEndsNow(i)
       /\ StringText(inflight[i].req.body)
       /\ Trim(inflight[i].req.body.prop.v) = <<>>
       => /\ resp'.status \in 400..499
          /\ UNCHANGED effectVars]_vars

\* C12: the 'end' listener of a send request with valid text for a room that
\* is not in the registry answers 404, calls no callback, stores nothing and
\* writes to no subscriber.
C12_UnknownRoomNotFound ==
  [][\A i \in 1..Len(inflight) :
       /\ SendEndsNow(i)
       /\ ValidText(inflight[i].req.body)
       /\ ~HasGroup(groups, WebJid(inflight[i].room))
       => /\ lastOp' = Some(inflight[i].req)
          /\ resp'.status = 404
          /\ UNCHANGED effectVars]_vars

\* C12 witness: a send request with text for the unregistered room, which
\* has a subscriber, was answered 404.
C12_Witness ==
  /\ lastOp = Some(Request("POST", PathRoom(SlugB, SegSend), QueryToken, None,
                           Body("object", JSString(<<"h">>))))
  /\ resp.status = 404
  /\ RegisteredUnder(1, WebJid(SlugB))
  /\ calls = <<>>

\* C13: successful ingestion.  The 'end' listener of a send request with
\* valid text for a registered room calls onChatMetadata once, then onMessage
\* once with (jid, msg), then writes the event of msg to every subscriber of
\* the room and to no other stream, then answers 200 with msg; msg is a human
\* message of the room.  The order shows when a callback throws: what comes
\* after it has not happened, and the answer is not 200.
C13_IngestionInOrder ==
  [][\A i \in 1..Len(inflight) :
       /\ SendEndsNow(i)
       /\ ValidText(inflight[i].req.body)
       /\ HasGroup(groups, WebJid(inflight[i].room))
       => LET jid == WebJid(inflight[i].room)
              n == Len(calls)
          IN /\ Len(calls') \in {n + 1, n + 2}
             /\ SubSeq(calls', 1, n) = calls
             /\ calls'[n + 1].cb = "onChatMetadata"
             /\ calls'[n + 1].jid = jid
             /\ Len(calls') = n + 2 => calls'[n + 2].cb = "onMessage"
             /\ IF resp'.status = 200
                THEN /\ resp'.kind = "sent"
                     /\ Len(calls') = n + 2
                     /\ calls'[n + 2] = MessageCall(jid, resp'.data[1])
                     /\ resp'.data[1].chat_jid = jid
                     /\ resp'.data[1].is_from_me
                     /\ ~resp'.data[1].is_bot_message
                     /\ resp'.data[1].content = Trim(inflight[i].req.body.prop.v)
                     /\ \A c \in 1..Len(sse) :
                          IF RegisteredUnder(c, jid)
                          THEN WritesEvent(c, resp'.data[1])
                          ELSE sse'[c] = sse[c]
                ELSE resp'.status = 400 /\ sse' = sse]_vars

\* C13 witness: a send request was answered 200 while the room had a
\* subscriber; the two callbacks were called and the subscriber holds the event.
C13_Witness ==
  /\ resp.kind = "sent"
  /\ Len(calls) = 2
  /\ calls[1].cb = "onChatMetadata"
  /\ calls[2] = MessageCall(WebJid(SlugA), resp.data[1])
  /\ RegisteredUnder(1, WebJid(SlugA))
  /\ \E k \in MessageChunks(1) :
       sse[1].out[k].chunk = MessageEvent(JSONStringify(resp.data[1]))

\* the 'end' listener of a send or create-room request runs in this step
BodyEndsNow == \E i \in 1..Len(inflight) : inflight' = RemoveAt(inflight, i)

\* C15: no partial side effects on client errors.  When the 'end' listener of
\* a send or create-room request answers 4xx, the request has called no
\* callback, registered no room, stored nothing and written to no subscriber.
C15_NoPartialEffects ==
  [][BodyEndsNow /\ resp'.status \in 400..499
       => UNCHANGED <<clientsByRoom, sse, groups, calls, store>>]_vars

\* the messages handed to onMessage for the room, in the order of the calls
RECURSIVE SentTo(_, _)
SentTo(log, jid) ==
  IF log = <<>> THEN <<>>
  ELSE IF Head(log).cb = "onMessage" /\ Head(log).jid = jid
       THEN <<Head(log).msg>> \o SentTo(Tail(log), jid)
       ELSE SentTo(Tail(log), jid)

\* the human-authored messages of a list of messages, in its order
RECURSIVE FromMe(_)
FromMe(msgs) ==
  IF msgs = <<>> THEN <<>>
  ELSE IF Head(msgs).is_from_me THEN <<Head(msgs)>> \o FromMe(Tail(msgs))
       ELSE FromMe(Tail(msgs))

\* the value of a field in the serialisation of a message
FieldOf(data, key) == data[CHOOSE k \in 1..Len(data) : data[k][1] = key][2]

\* the (content, room, human-authored) of the message events of a stream
RECURSIVE EventsOf(_)
EventsOf(out) ==
  IF out = <<>> THEN <<>>
  ELSE IF Head(out).chunk[1] = "message"
       THEN <<[content |-> FieldOf(Head(out).chunk[2], "content"),
               chat_jid |-> FieldOf(Head(out).chunk[2], "chat_jid"),
               is_from_me |-> FieldOf(Head(out).chunk[2], "is_from_me")]>>
            \o EventsOf(Tail(out))
       ELSE EventsOf(Tail(out))

Brief(msgs) ==
  [k \in 1..Len(msgs) |-> [content |-> msgs[k].content, chat_jid |-> msgs[k].chat_jid,
                           is_from_me |-> msgs[k].is_from_me]]

IsSuffix(t, u) == Len(t) <= Len(u) /\ SubSeq(u, Len(u) - Len(t) + 1, Len(u)) = t

\* the room a history request asks for
HistoryRoom(req) == WebJid(decodeURIComponent(req.path[3]))

\* C14: round trip.  A history fetch for a room returns the messages sent to
\* that room through the send endpoint, with their content and in the order
\* they were sent (while they are among the last HistoryLimit messages of the
\* room); and the sent messages a registered stream of the room holds are,
\* with their content and in their order, the ones sent since it was opened.
C14_History ==
  resp.kind = "history" =>
    LET sent == SentTo(calls, HistoryRoom(lastOp[1]))
    IN /\ \A k \in 1..Len(resp.data) : resp.data[k].chat_jid = HistoryRoom(lastOp[1])
       /\ Len(OfRoom(store, HistoryRoom(lastOp[1]))) <= HistoryLimit
            => FromMe(resp.data) = sent

C14_Streams ==
  \A c \in 1..Len(sse) :
    RegisteredUnder(c, sse[c].jid) =>
      /\ \A k \in 1..Len(EventsOf(sse[c].out)) :
           EventsOf(sse[c].out)[k].chat_jid = sse[c].jid
      /\ IsSuffix(FromMe(EventsOf(sse[c].out)), Brief(SentTo(calls, sse[c].jid)))

\* a step in which the send endpoint answers 200 hands the message, with its
\* content, to every live stream of the room
C14_Delivered ==
  SentNow =>
    \A c \in 1..Len(sse) :
      RegisteredUnder(c, resp'.data[1].chat_jid) /\ SinkLive(sse[c]) =>
        /\ Len(sse'[c].out) = Len(sse[c].out) + 1
        /\ sse'[c].out[Len(sse'[c].out)].live
        /\ EventsOf(<<sse'[c].out[Len(sse'[c].out)]>>) = Brief(resp'.data)

C14_RoundTrip == [](C14_History /\ C14_Streams) /\ [][C14_Delivered]_vars

\* C14 witness: two messages were sent to a room, one of them with leading
\* white space; a stream opened before holds both, and the history fetched
\* afterwards returned both, in the order sent.
C14_Witness ==
  /\ resp.kind = "history"
  /\ Len(resp.data) = 2
  /\ resp.data[1].content = <<"g">>
  /\ resp.data[2].content = <<"h">>
  /\ FromMe(resp.data) = resp.data
  /\ RegisteredUnder(1, WebJid(SlugA))
  /\ FromMe(EventsOf(sse[1].out)) = Brief(resp.data)

\* a chunk of the body of the send request inflight[i] arrives in this step
\* and takes the accumulated body past the limit
GuardTripsNow(i) ==
  /\ inflight[i].kind = "send"
  /\ inflight[i].received <= SendBodyLimit
  /\ \/ inflight' = RemoveAt(inflight, i) /\ inflight[i].received < inflight[i].req.body.len
     \/ Len(inflight') = Len(inflight) /\ inflight'[i].received > SendBodyLimit

\* C16: body-size guard.  A send request whose accumulated body exceeds
\* 100,000 is answered 413 without any effect, and its 'end' listener never
\* runs; a request whose body has at most 100,000 characters is not answered
\* 413.
C16_BodySizeGuard ==
  /\ [][\A i \in 1..Len(inflight) :
          /\ GuardTripsNow(i) => resp'.status = 413 /\ UNCHANGED effectVars
          /\ SendEndsNow(i) => inflight[i].received <= SendBodyLimit]_vars
  /\ [](lastOp # None /\ resp.status = 413 => lastOp[1].body.len > SendBodyLimit)

\* the step ends a sendMessage call: its outcome is what the caller sees now
SendMessageEndsNow ==
  /\ lastOp' # None
  /\ lastOp'[1].method = "sendMessage"
  /\ lastOp' # lastOp \/ resp' # resp \/ store' # store

\* the jid belongs to the gateway: it starts with 'web:'
OwnedJid(jid) == Len(jid) >= 4 /\ SubSeq(jid, 1, 4) = <<"w", "e", "b", ":">>

\* a bot message is appended to the store, or its event written to a stream
BotMessageOut ==
  \/ Len(store') > Len(store) /\ store'[Len(store')].is_bot_message
  \/ \E c \in 1..Len(sse) :
       /\ Len(sse'[c].out) > Len(sse[c].out)
       /\ sse'[c].out[Len(sse'[c].out)].chunk[1] = "message"
       /\ FieldOf(sse'[c].out[Len(sse'[c].out)].chunk[2], "is_bot_message")

\* C17: sendMessage(jid, ...) acts exactly on the gateway's jids.  For a jid
\* that does not start with 'web:' it stores nothing and writes to no stream;
\* for a jid that does, and a store that takes the message, it stores the
\* message of that jid and writes its event to the subscribers of the jid.
C17_OwnAddressSpace ==
  [][/\ SendMessageEndsNow =>
          IF OwnedJid(lastOp'[1].jid)
          THEN resp'.kind = "resolved" =>
                 /\ Len(store') = Len(store) + 1
                 /\ store'[Len(store')].chat_jid = lastOp'[1].jid
                 /\ \A c \in 1..Len(sse) :
                      RegisteredUnder(c, lastOp'[1].jid)
                        => WritesEvent(c, store'[Len(store')])
          ELSE resp'.kind = "ignored" /\ store' = store /\ sse' = sse
     /\ BotMessageOut => SendMessageEndsNow /\ OwnedJid(lastOp'[1].jid)]_vars

\* C17 witness: sendMessage for a jid of another channel was ignored while a
\* room had a subscriber; nothing is stored and the subscriber holds no event.
C17_Witness ==
  /\ lastOp = Some(SendCall(TgJid, <<"h">>, None))
  /\ resp.kind = "ignored"
  /\ store = <<>>
  /\ Len(sse) >= 1
  /\ RegisteredUnder(1, sse[1].jid)
  /\ MessageChunks(1) = {}

\* C18: sendMessage persists before it publishes.  A call that resolves has
\* stored the message and written its event to the room's subscribers; when
\* the store append fails the call is rejected, nothing is stored and no
\* stream is written to.  A history fetch for a room returns the messages
\* stored for it (while they are at most HistoryLimit).
C18_PersistThenPublish ==
  /\ [][SendMessageEndsNow /\ OwnedJid(lastOp'[1].jid) =>
          \/ /\ resp'.kind = "resolved"
             /\ Len(store') = Len(store) + 1
             /\ \A c \in 1..Len(sse) :
                  RegisteredUnder(c, lastOp'[1].jid)
                    => WritesEvent(c, store'[Len(store')])
          \/ /\ resp'.kind = "rejected"
             /\ store' = store
             /\ sse' = sse]_vars
  /\ [](resp.kind = "history" =>
          \A k \in 1..Len(store) :
            /\ store[k].chat_jid = HistoryRoom(lastOp[1])
            /\ Len(OfRoom(store, HistoryRoom(lastOp[1]))) <= HistoryLimit
            => \E j \in 1..Len(resp.data) : resp.data[j] = store[k])

\* C18 witness: after a rejected call and a resolved one, the history of the
\* room was fetched and returned the one stored bot message, which the
\* room's subscriber holds once.
C18_Witness ==
  /\ resp.kind = "history"
  /\ Len(resp.data) = 1
  /\ resp.data[1].is_bot_message
  /\ nextId = 2
  /\ RegisteredUnder(1, resp.data[1].chat_jid)
  /\ Cardinality(MessageChunks(1)) = 1

\* C19: sender attribution.  The message a resolved sendMessage call stored
\* is a bot message, not from the user; without an override its sender is
\* 'bot' and its sender_name the assistant name, with an override both are
\* the override.
C19_SenderAttribution ==
  [][SendMessageEndsNow /\ resp'.kind = "resolved" =>
       LET m == store'[Len(store')]
           meta == lastOp'[1].meta
       IN /\ m.is_bot_message
          /\ ~m.is_from_me
          /\ m.content = lastOp'[1].text
          /\ IF meta = None
             THEN m.sender = <<"b", "o", "t">> /\ m.sender_name = AssistantName
             ELSE m.sender = meta[1] /\ m.sender_name = meta[1]]_vars

\* C19 witness: one call without an override and one with an override have
\* been stored.
C19_Witness ==
  /\ Len(store) = 2
  /\ store[1].sender = <<"b", "o", "t">>
  /\ store[1].sender_name = AssistantName
  /\ store[2].sender = <<"R">>
  /\ store[2].sender_name = <<"R">>

\* the places of the characters of [a-z0-9] in a string, in order
SlugCharPlaces(str) ==
  LET Test(i) == IsSlugChar(str[i])
  IN SelectSeq([i \in 1..Len(str) |-> i], Test)

\* only groups of [a-z0-9] joined by single '-', or empty
WellFormedSlug(slug) ==
  /\ \A i \in 1..Len(slug) : IsSlugChar(slug[i]) \/ slug[i] = "-"
  /\ slug # <<>> => slug[1] # "-" /\ slug[Len(slug)] # "-"
  /\ \A i \in 1..(Len(slug) - 1) : ~(slug[i] = "-" /\ slug[i + 1] = "-")

\* slug is name lower-cased with every maximal run of other characters
\* between two characters of [a-z0-9] replaced by one '-', and the runs at
\* both ends removed
SlugOfName(name, slug) ==
  LET lower == toLowerCase(name)
      from == SlugCharPlaces(lower)
      to == SlugCharPlaces(slug)
  IN /\ WellFormedSlug(slug)
     /\ Len(to) = Len(from)
     /\ \A j \in 1..Len(from) : slug[to[j]] = lower[from[j]]
     /\ \A j \in 1..(Len(from) - 1) :
          (to[j + 1] > to[j] + 1) <=> (from[j + 1] > from[j] + 1)

\* C20: slug derivation.  The identifier POST /api/rooms derives from a name
\* is the name lower-cased and trimmed, every maximal run of characters
\* outside [a-z0-9] replaced by a single '-' and a leading and a trailing '-'
\* removed; it is empty (and the name refused) or groups of [a-z0-9] joined
\* by single '-', and the room's address is 'web:' followed by it.
C20_SlugDerivation ==
  lastOp # None /\ resp.kind \in {"created", "exists", "invalidName"} =>
    LET name == lastOp[1].body.prop.v
    IN IF resp.kind = "invalidName" THEN SlugOfName(name, <<>>)
       ELSE /\ resp.data[1].slug # <<>>
            /\ SlugOfName(name, resp.data[1].slug)
            /\ resp.kind = "created" =>
                 resp.data[1].jid = <<"w", "e", "b", ":">> \o resp.data[1].slug

\* C20 witness: 'Work Stuff!!' created the room 'work-stuff' at
\* 'web:work-stuff'.
C20_Witness ==
  /\ lastOp # None
  /\ lastOp[1].body.prop = JSString(WorkStuff)
  /\ resp.kind = "created"
  /\ resp.data[1].slug = <<"w", "o", "r", "k", "-", "s", "t", "u", "f", "f">>
  /\ resp.data[1].jid
       = <<"w", "e", "b", ":", "w", "o", "r", "k", "-", "s", "t", "u", "f", "f">>

\* the step is the 'end' listener of create request i, its body complete
CreateEndsNow(i) ==
  /\ Len(inflight') < Len(inflight)
  /\ inflight[i].kind = "create"
  /\ inflight' = RemoveAt(inflight, i)
  /\ inflight[i].received = inflight[i].req.body.len
  /\ ~inflight[i].destroyed

\* the body carries a name: a non-empty string
NamedBody(body) ==
  body.parse = "object" /\ body.prop.t = "string" /\ body.prop.v # <<>>

\* the identifier of the name is registered / is empty
NameTaken(name) ==
  \E k \in 1..Len(groups) :
    /\ OwnedJid(groups[k].jid)
    /\ SlugOfName(name, SubSeq(groups[k].jid, 5, Len(groups[k].jid)))
NameEmpty(name) == SlugOfName(name, <<>>)

\* C21: room-name derivation is deterministic and idempotent.  Every answer
\* to a name carries the identifier under which a room of that name was
\* registered before, and a name that is itself an identifier (one the
\* endpoint derived and registered, or any non-empty string of [a-z0-9]
\* groups joined by single '-') is answered with itself.
C21_SlugIdempotent ==
  lastOp # None /\ resp.kind \in {"created", "exists", "invalidName"} =>
    LET name == lastOp[1].body.prop.v
        Identifier(str) ==
          \/ WellFormedSlug(str) /\ str # <<>>
          \/ \E k \in (Len(InitialGroups) + 1)..Len(groups) :
               groups[k].jid = <<"w", "e", "b", ":">> \o str
    IN IF resp.kind = "invalidName" THEN ~Identifier(name)
       ELSE /\ \A k \in 1..Len(groups) :
                 groups[k].group.name = name
                   => groups[k].jid = <<"w", "e", "b", ":">> \o resp.data[1].slug
            /\ Identifier(name) => resp.data[1].slug = name

\* C21 witness: the identifier derived for 'Work Stuff!!' was sent back as a
\* name and answered as the existing room of the same identifier.
C21_Witness ==
  /\ Len(groups) = Len(InitialGroups) + 1
  /\ groups[Len(groups)].group.name = WorkStuff
  /\ lastOp # None
  /\ resp.kind = "exists"
  /\ lastOp[1].body.prop.v = resp.data[1].slug
  /\ groups[Len(groups)].jid = <<"w", "e", "b", ":">> \o resp.data[1].slug

\* C22: a create request whose name derives to a registered identifier is
\* answered 409; the registry is left as it is and neither onRegisterGroup
\* nor onChatMetadata is called.
C22_DuplicateRoom ==
  [][\A i \in 1..Len(inflight) :
       /\ CreateEndsNow(i)
       /\ NamedBody(inflight[i].req.body)
       /\ NameTaken(inflight[i].req.body.prop.v)
       => /\ resp'.status = 409
          /\ groups' = groups
          /\ calls' = calls]_vars

\* C22 witness: a room was created, and a second request whose name derives
\* to the same identifier was answered 409 with one registration made.
C22_Witness ==
  /\ Len(groups) = Len(InitialGroups) + 1
  /\ lastOp # None
  /\ resp.status = 409
  /\ lastOp[1].body.prop.v # groups[Len(groups)].group.name
  /\ groups[Len(groups)].jid = <<"w", "e", "b", ":">> \o resp.data[1].slug
  /\ Len(calls) = 2

\* C23: a create request whose name derives to the empty identifier (no
\* character of [a-z0-9] in it, lower-cased) is answered 400 'Invalid room
\* name' and registers nothing.
C23_EmptyIdentifier ==
  [][\A i \in 1..Len(inflight) :
       /\ CreateEndsNow(i)
       /\ NamedBody(inflight[i].req.body)
       /\ NameEmpty(inflight[i].req.body.prop.v)
       => /\ resp'.status = 400
          /\ resp'.kind = "invalidName"
          /\ groups' = groups
          /\ calls' = calls]_vars

\* C23 witness: the name ' -' was refused with nothing registered.
C23_Witness ==
  /\ lastOp # None
  /\ lastOp[1].body.prop = JSString(<<" ", "-">>)
  /\ resp.status = 400
  /\ resp.kind = "invalidName"
  /\ groups = InitialGroups
  /\ calls = <<>>

\* C24: successful room creation.  For a name whose identifier s is neither
\* empty nor registered, onRegisterGroup is called once with 'web:'+s and a
\* group of that name, folder 'web-'+s and requiresTrigger false, then
\* onChatMetadata once for 'web:'+s, and the answer is 201 with s, the name
\* and 'web:'+s.
C24_RoomCreated ==
  [][\A i \in 1..Len(inflight) :
       /\ CreateEndsNow(i)
       /\ NamedBody(inflight[i].req.body)
       /\ ~NameTaken(inflight[i].req.body.prop.v)
       /\ ~NameEmpty(inflight[i].req.body.prop.v)
       => LET name == inflight[i].req.body.prop.v
              s == resp'.data[1].slug
              jid == <<"w", "e", "b", ":">> \o s
          IN /\ resp'.status = 201
             /\ SlugOfName(name, s)
             /\ resp'.data = <<[slug |-> s, name |-> name, jid |-> jid]>>
             /\ Len(calls') = Len(calls) + 2
             /\ SubSeq(calls', 1, Len(calls)) = calls
             /\ LET reg == calls'[Len(calls) + 1]
                    meta == calls'[Len(calls) + 2]
                IN /\ reg.cb = "onRegisterGroup"
                   /\ reg.jid = jid
                   /\ reg.group.name = name
                   /\ reg.group.folder = <<"w", "e", "b", "-">> \o s
                   /\ reg.group.requiresTrigger = FALSE
                   /\ meta.cb = "onChatMetadata"
                   /\ meta.jid = jid]_vars

\* C24 witness: 'My Project' was created as 'my-project' with the two calls.
C24_Witness ==
  /\ lastOp # None
  /\ lastOp[1].body.prop = JSString(MyProject)
  /\ resp.status = 201
  /\ Len(calls) = 2
  /\ calls[1].cb = "onRegisterGroup"
  /\ calls[1].group.folder
       = <<"w", "e", "b", "-", "m", "y", "-", "p", "r", "o", "j", "e", "c", "t">>
  /\ calls[2].cb = "onChatMetadata"

\* C25: GET /api/rooms answers with exactly the registry entries whose jid
\* starts with 'web:', one item each and in no other number: the slug is the
\* jid without 'web:', with the group's name, the jid and added_at.
C25_ListRooms ==
  resp.kind = "rooms" =>
    /\ resp.status = 200
    /\ \A k \in 1..Len(groups) :
         OwnedJid(groups[k].jid) =>
           \E j \in 1..Len(resp.data) :
             /\ resp.data[j].jid = groups[k].jid
             /\ <<"w", "e", "b", ":">> \o resp.data[j].slug = groups[k].jid
             /\ resp.data[j].name = groups[k].group.name
             /\ resp.data[j].added_at = groups[k].group.added_at
    /\ \A j \in 1..Len(resp.data) :
         /\ OwnedJid(resp.data[j].jid)
         /\ \E k \in 1..Len(groups) : groups[k].jid = resp.data[j].jid
    /\ Len(resp.data) = Cardinality({k \in 1..Len(groups) : OwnedJid(groups[k].jid)})

\* C25 witness: the list was fetched after a room was created: it holds the
\* bootstrap room and the new one, and not the group of the other channel.
C25_Witness ==
  /\ resp.kind = "rooms"
  /\ Len(groups) = 3
  /\ \E k \in 1..Len(groups) : ~OwnedJid(groups[k].jid)
  /\ Len(resp.data) = 2
  /\ resp.data[2].name = MyProject
  /\ resp.data[2].slug = <<"m", "y", "-", "p", "r", "o", "j", "e", "c", "t">>

\* the request is GET /r/{room}
RoomPage(req) ==
  /\ req.method = "GET"
  /\ Len(req.path) = 2
  /\ req.path[1] = Lit(<<"r">>)
  /\ req.path[2] # <<>>

C27_OkFirst ==
  /\ [](\A c \in 1..Len(sse) :
          /\ Len(sse[c].out) >= 1
          /\ sse[c].out[1].chunk = <<"comment", <<"ok">>>>
          /\ \A i \in 2..Len(sse[c].out) : sse[c].out[i].chunk # sse[c].out[1].chunk)
  /\ [][\A c \in 1..Len(sse') :
          c > Len(sse) =>
            /\ sse'[c].jid \in DOMAIN clientsByRoom'
            /\ \E i \in 1..Len(clientsByRoom'[sse'[c].jid]) :
                 clientsByRoom'[sse'[c].jid][i] = c
            /\ Len(sse'[c].out) = 1]_vars

\* C27 witness: a stream holds ':ok', then a heartbeat and a message event.
C27_Witness ==
  \E c \in 1..Len(sse) :
    /\ Len(sse[c].out) = 3
    /\ sse[c].out[1].chunk = OkChunk
    /\ \E i, j \in 2..3 : /\ sse[c].out[i].chunk = PingChunk
                          /\ sse[c].out[j].chunk[1] = "message"

\* where client c stands in the table: the (room, index) pairs that hold it
PlacesOf(table, c) ==
  {p \in UNION {{<<j, i>> : i \in 1..Len(table[j])} : j \in DOMAIN table} :
     table[p[1]][p[2]] = c}

\* C28: the 'close' listener is idempotent.  In every state, running it for
\* any subscriber and then once more gives the table of the first run; for
\* a subscriber that is not in the table it gives the table back; and it
\* never takes another subscriber out.  A 'close' listener that runs for a
\* subscriber no longer in the table, as after disconnect(), leaves the
\* table as it is.
C28_UnsubscribeIdempotent ==
  /\ [](\A c \in 1..Len(sse) :
          LET once == RemoveClient(clientsByRoom, sse[c].jid, c)
          IN /\ RemoveClient(once, sse[c].jid, c) = once
             /\ PlacesOf(clientsByRoom, c) = {} => once = clientsByRoom
             /\ \A d \in 1..Len(sse) :
                  d # c /\ PlacesOf(clientsByRoom, d) # {}
                    => \E p \in PlacesOf(once, d) : p[1] = sse[d].jid)
  /\ [][\A c \in 1..Len(sse) :
          CloseFiresNow(c) /\ PlacesOf(clientsByRoom, c) = {}
            => clientsByRoom' = clientsByRoom]_vars

\* C28 witness: disconnect() took a subscriber out of the table, a second
\* one has subscribed to the same room since, the 'close' listener of the
\* first has run, and the second is still registered.
C28_Witness ==
  /\ Len(sse) = 2
  /\ sse[1].jid = sse[2].jid
  /\ sse[1].ended /\ sse[1].closeFired
  /\ ~sse[2].ended /\ ~sse[2].closeFired
  /\ PlacesOf(clientsByRoom, 2) # {}

C30_ExactlyOnce ==
  /\ [](\A c \in 1..Len(sse) :
          /\ Cardinality(PlacesOf(clientsByRoom, c)) <= 1
          /\ \A p \in PlacesOf(clientsByRoom, c) : p[1] = sse[c].jid
          /\ ~sse[c].ended /\ ~sse[c].closeFired
               => Cardinality(PlacesOf(clientsByRoom, c)) = 1)
  /\ [][\A m \in PublishedNow : \A c \in 1..Len(sse) :
          PlacesOf(clientsByRoom, c) # {} /\ sse[c].jid = m.chat_jid =>
            /\ Len(sse'[c].out) = Len(sse[c].out) + 1
            /\ sse'[c].out[Len(sse'[c].out)].chunk[1] = "message"
            /\ FieldOf(sse'[c].out[Len(sse'[c].out)].chunk[2], "id") = m.id
            /\ \A i \in 1..Len(sse[c].out) :
                 sse[c].out[i].chunk # sse'[c].out[Len(sse'[c].out)].chunk]_vars

\* C30 witness: two messages were published to a room with two subscribers,
\* one of which closed after the first: it holds one event, the other two.
C30_Witness ==
  /\ Len(sse) = 2
  /\ sse[1].jid = sse[2].jid
  /\ \E c, d \in 1..2 :
       /\ sse[c].closeFired
       /\ Cardinality(MessageChunks(c)) = 1
       /\ PlacesOf(clientsByRoom, d) # {}
       /\ Cardinality(MessageChunks(d)) = 2

\* C31: a step that handles an OPTIONS request, on any path and with or
\* without the secret, answers 204 with no body and has no effect: no
\* subscriber is registered, no callback called, no body awaited.
C31_Preflight ==
  [][lastOp' # None /\ lastOp'[1].method = "OPTIONS" =>
       /\ resp' = [status |-> 204, kind |-> "empty", data |-> <<>>]
       /\ NoHandlerEffect]_vars

\* C31 witness: an OPTIONS request to the events path of a room, without the
\* secret, was answered 204 and no stream was opened.
C31_Witness ==
  /\ lastOp = Some(Request("OPTIONS", PathRoom(SlugA, SegEvents), None, None, NoBody))
  /\ resp.status = 204
  /\ sse = <<>>

\* the (method, path) of the request is one of the route table
InRouteTable(req) ==
  LET path == req.path
      Seg(str) == [i \in 1..Len(str) |-> <<str[i]>>]
      api == Seg(<<"a", "p", "i">>)
      rooms == Seg(<<"r", "o", "o", "m", "s">>)
  IN \/ req.method = "OPTIONS"
     \/ req.method = "GET" /\ path = <<>>
     \/ req.method = "GET" /\ Len(path) = 2 /\ path[1] = Seg(<<"r">>) /\ path[2] # <<>>
     \/ req.method \in {"GET", "POST"} /\ path = <<api, rooms>>
     \/ /\ Len(path) = 4
        /\ path[1] = api /\ path[2] = rooms /\ path[3] # <<>>
        /\ \/ req.method = "GET" /\ path[4] = Seg(<<"e", "v", "e", "n", "t", "s">>)
           \/ req.method = "POST" /\ path[4] = Seg(<<"s", "e", "n", "d">>)
           \/ req.method = "GET" /\ path[4] = Seg(<<"h", "i", "s", "t", "o", "r", "y">>)

PublicAnswer(req) ==
  IF req.method = "OPTIONS" THEN [status |-> 204, kind |-> "empty", data |-> <<>>]
  ELSE IF req.method = "GET" /\ (req.path = <<>> \/ RoomPage(req))
       THEN [status |-> 401, kind |-> "text", data |-> <<>>]
  ELSE IF Len(req.path) >= 2 /\ req.path[1] = Lit(<<"a", "p", "i">>)
       THEN [status |-> 401, kind |-> "error", data |-> <<>>]
  ELSE [status |-> 404, kind |-> "error", data |-> <<>>]

C33_Lifecycle ==
  /\ server \in {"null", "starting"} => ~connected
  /\ server = "listening" => connected
  /\ server \in {"closing", "closed"} => ~connected

\* C33 witness: the channel was connected, a stream was opened, and
\* disconnect() has been called: isConnected() is false.
C33_Witness ==
  /\ server = "closing"
  /\ ~connected
  /\ Len(sse) >= 1
  /\ sse[1].ended

\* two create requests await their 'end' together, their names derive to the
\* same identifier, and the identifier is not registered
RacingCreates ==
  \E i, j \in 1..Len(inflight) :
    /\ i # j
    /\ inflight[i].kind = "create" /\ inflight[j].kind = "create"
    /\ Slugify(inflight[i].req.body.prop.v) = Slugify(inflight[j].req.body.prop.v)
    /\ ~HasGroup(groups, WebJid(Slugify(inflight[i].req.body.prop.v)))

\* onRegisterGroup was called twice for one identifier
RegisteredTwice ==
  \E k1, k2 \in 1..Len(calls) :
    /\ k1 < k2
    /\ calls[k1].cb = "onRegisterGroup" /\ calls[k2].cb = "onRegisterGroup"
    /\ calls[k1].jid = calls[k2].jid

C35_ConflictReturnsName ==
  lastOp # None /\ resp.status = 409 =>
    /\ "name" \in DOMAIN resp.data[1]
    /\ resp.data[1].name = lastOp[1].body.prop.v

\* C38 as stated: once disconnect() has been called no subscriber is in the
\* table and no keepalive timer is armed.
C38_QuietAfterDisconnect ==
  server \in {"closing", "closed"} =>
    /\ \A j \in DOMAIN clientsByRoom : clientsByRoom[j] = <<>>
    /\ \A c \in 1..Len(sse) : ~sse[c].timer

\* stream c has received one more chunk, a ':ping'
PingWritten(c) ==
  /\ Len(sse'[c].out) = Len(sse[c].out) + 1
  /\ sse'[c].out[Len(sse'[c].out)].chunk = PingChunk

\* C39: in every state the keepalive timer of a stream is armed exactly when
\* the stream is in the subscription table.  A step that writes ':ping' to a
\* stream is made for an armed timer, appends that one chunk to that stream,
\* leaves every other stream as it was and changes nothing of the table.
C39_TimerIffSubscribed ==
  /\ [](\A c \in 1..Len(sse) : sse[c].timer <=> PlacesOf(clientsByRoom, c) # {})
  /\ [][\A c \in 1..Len(sse) :
          Len(sse') = Len(sse) /\ PingWritten(c) =>
            /\ sse[c].timer
            /\ sse'[c] = [sse[c] EXCEPT !.out = sse'[c].out]
            /\ SubSeq(sse'[c].out, 1, Len(sse[c].out)) = sse[c].out
            /\ \A d \in 1..Len(sse) : d # c => sse'[d] = sse[d]
            /\ clientsByRoom' = clientsByRoom]_vars

\* C39 witness: a subscribed stream whose timer has fired beside a stream
\* that left the table and whose timer is cancelled.
C39_Witness ==
  \E c, d \in 1..Len(sse) :
    /\ sse[c].timer /\ PlacesOf(clientsByRoom, c) # {} /\ Pings(sse[c]) >= 1
    /\ ~sse[d].timer /\ PlacesOf(clientsByRoom, d) = {} /\ sse[d].closeFired

\* the request is an authenticated stream-open for the room
StreamOpenFor(op, room) ==
  /\ op.method = "GET"
  /\ op.path = PathRoom(room, SegEvents)
  /\ op.query = QueryToken

\* C36: subscribe always succeeds and does not look at the registry.  A
\* step that takes an authenticated stream-open request for a room, in the
\* registry or not, answers 200 and registers one new subscriber under
\* 'web:<room>'; a message published to a room that is not in the registry
\* is written to every subscriber registered under it.
C36_SubscribeUnchecked ==
  /\ [][\A room \in Slugs :
          /\ lastOp' # None
          /\ lastOp' # lastOp \/ resp' # resp
          /\ StreamOpenFor(lastOp'[1], room)
          => /\ resp'.status = 200
             /\ Len(sse') = Len(sse) + 1
             /\ sse'[Len(sse')].jid = <<"w", "e", "b", ":">> \o room
             /\ <<"w", "e", "b", ":">> \o room \in DOMAIN clientsByRoom'
             /\ \E i \in 1..Len(clientsByRoom'[<<"w", "e", "b", ":">> \o room]) :
                  clientsByRoom'[<<"w", "e", "b", ":">> \o room][i] = Len(sse')]_vars
  /\ [][\A m \in PublishedNow : \A c \in 1..Len(sse) :
          ~HasGroup(groups, m.chat_jid) /\ RegisteredUnder(c, m.chat_jid)
          => WritesEvent(c, m)]_vars

\* C36 witness: a subscriber registered under a room that is not in the
\* registry holds the event of a message published to that room after it
\* subscribed.
C36_Witness ==
  \E c \in 1..Len(sse) :
    /\ ~HasGroup(groups, sse[c].jid)
    /\ RegisteredUnder(c, sse[c].jid)
    /\ \E k \in 1..Len(store) :
         /\ store[k].chat_jid = sse[c].jid
         /\ \E i \in 2..Len(sse[c].out) :
              sse[c].out[i].chunk = MessageEvent(JSONStringify(store[k]))

\* message k of the store was sent to the page's room after the connection of
\* an earlier stream of the page had closed: the hub wrote it to a dead sink
MissedWhileDisconnected(k) ==
  /\ store[k].chat_jid = <<"w", "e", "b", ":">> \o PageRoom
  /\ \E c \in 1..(page.opened - 1) : \E i \in 1..Len(sse[c].out) :
       /\ ~sse[c].out[i].live
       /\ sse[c].out[i].chunk = MessageEvent(JSONStringify(store[k]))

\* the page has reconnected and has nothing left to receive: its new stream
\* is open and read to its end, and no history fetch is under way
PageSettled ==
  /\ page.es = "open"
  /\ page.opened >= 2
  /\ Len(sse) = page.opened
  /\ SinkLive(sse[page.opened])
  /\ page.read = Len(sse[page.opened].out)
  /\ page.hist = "done"

\* C37 as stated: the page re-fetches the history when it reconnects, so
\* that once it has reconnected and settled it displays every message that
\* was sent to its room while it was disconnected.
C37_RefetchOnReconnect ==
  PageSettled =>
    \A k \in 1..Len(store) : MissedWhileDisconnected(k) => store[k].id \in page.seenIds

=============================================================================
